---- MODULE Spec2Model ----
(***************************************************************************)
(* Model of metis-rs: the Turtle statement iterator (Parser::next), the    *)
(* parse context, the grammar productions and the streaming serializer.    *)
(*                                                                         *)
(* A document is a sequence of lexical tokens [t, v]; the terminals        *)
(* (regular expressions of turtle/parse/terminals.rs) are the primitives.  *)
(* An IRI is the sequence <<authority, segment_1, ..., segment_n>> of the  *)
(* text "authority/segment_1/.../segment_n"; a relative reference has the  *)
(* authority "".                                                           *)
(***************************************************************************)
EXTENDS Integers, Sequences, FiniteSets, Bags, TLC

\* ------------------------------------------------------------------ bounds
\* Number of document fragments a document is built from.
MaxFrags == 2
\* Calls of Parser::next made after the iterator has ended.
MaxExtraCalls == 2
\* Triples handed to one Serializer over all its serialize calls.
MaxTriples == 3
\* Calls of Serializer::serialize on one Serializer.
MaxSerCalls == 2
\* Alternatives handed to one call of Parser::alt.
MaxAlts == 3
\* Writes a limited sink takes before it fails.
MaxRoom == 8

\* ------------------------------------------------------------------ terms
Iri(i) == [k |-> "iri", v |-> i, dt |-> <<>>, lang |-> ""]
BNode(label) == [k |-> "bnode", v |-> <<label>>, dt |-> <<>>, lang |-> ""]
LiteralDt(txt, dt) == [k |-> "lit", v |-> <<txt>>, dt |-> dt, lang |-> ""]
LiteralLang(txt, lang) == [k |-> "lit", v |-> <<txt>>, dt |-> <<>>, lang |-> lang]

RdfNs == <<"http://www.w3.org", "1999", "02", "22-rdf-syntax-ns#">>
XsdNs == <<"http://www.w3.org", "2001", "XMLSchema#">>
\* The text of a namespace followed by a suffix.
NsGet(ns, suffix) == [ns EXCEPT ![Len(ns)] = @ \o suffix]
rdf_first == Iri(NsGet(RdfNs, "first"))
rdf_rest == Iri(NsGet(RdfNs, "rest"))
rdf_nil == Iri(NsGet(RdfNs, "nil"))
rdf_type == Iri(NsGet(RdfNs, "type"))
xsd_string == NsGet(XsdNs, "string")
xsd_integer == NsGet(XsdNs, "integer")
xsd_decimal == NsGet(XsdNs, "decimal")
xsd_double == NsGet(XsdNs, "double")
xsd_boolean == NsGet(XsdNs, "boolean")

\* ------------------------------------------------------------------ IRIs
RECURSIVE RemoveDots(_, _)
RemoveDots(in, out) ==
    IF in = <<>> THEN out
    ELSE LET h == Head(in)
             t == Tail(in)
             dir(o) == IF t = <<>> THEN Append(o, "") ELSE o
         IN  IF h = "." THEN RemoveDots(t, dir(out))
             ELSE IF h = ".."
                  THEN RemoveDots(t, dir(IF out = <<>> THEN out
                                         ELSE SubSeq(out, 1, Len(out) - 1)))
                  ELSE RemoveDots(t, Append(out, h))

\* Reference resolution (RFC 3986, 5.2.2) of reference r against base b.
IriResolve(b, r) ==
    IF Head(r) # "" THEN <<Head(r)>> \o RemoveDots(Tail(r), <<>>)
    ELSE IF Len(r) = 1 THEN b
    ELSE LET bp == Tail(b)
             merged == (IF bp = <<>> THEN <<>> ELSE SubSeq(bp, 1, Len(bp) - 1))
                       \o Tail(r)
         IN  <<Head(b)>> \o RemoveDots(merged, <<>>)

\* ------------------------------------------------------------------ Prolog
\* The base is stored as the pair (Iri, IriParsed): the IRI and its
\* components, here the scheme with the authority and the path segments.
NoParsed == [authority |-> "", path |-> <<>>]
parse_components(iri) == [authority |-> Head(iri), path |-> Tail(iri)]
Compose(parsed) == <<parsed.authority>> \o parsed.path
NoBase == [set |-> FALSE, iri |-> <<>>, parsed |-> NoParsed]
StoredBase(iri) == [set |-> TRUE, iri |-> iri, parsed |-> parse_components(iri)]
PrologDefault == [base |-> NoBase, prefixes |-> <<>>]

\* The prefix table is a sequence of <<name, namespace>> pairs with distinct
\* names (HashMap<&str, Namespace>).
HasPrefix(prolog, p) == \E n \in 1..Len(prolog.prefixes) : prolog.prefixes[n][1] = p
GetPrefix(prolog, p) ==
    prolog.prefixes[CHOOSE n \in 1..Len(prolog.prefixes) : prolog.prefixes[n][1] = p][2]

\* Prolog::resolve
Resolve(prolog, other) ==
    IF prolog.base.set THEN IriResolve(Compose(prolog.base.parsed), other) ELSE other

\* Prolog::set_base; `suffixed` is Iri::has_suffix of the candidate.
set_base_store_verbatim(prolog, base, suffixed) ==
    IF suffixed THEN [ok |-> FALSE, prolog |-> prolog]
    ELSE [ok |-> TRUE, prolog |-> [prolog EXCEPT !.base = StoredBase(base)]]
set_base_keep_parsed(prolog, base, suffixed) ==
    IF suffixed THEN [ok |-> FALSE, prolog |-> prolog]
    ELSE LET b == IF prolog.base.set
                  THEN IriResolve(Compose(prolog.base.parsed), base) ELSE base
         IN  [ok |-> TRUE,
              prolog |-> [prolog EXCEPT !.base = [set |-> TRUE, iri |-> b,
                                                  parsed |-> prolog.base.parsed]]]
set_base(prolog, base, suffixed) ==
    IF suffixed THEN [ok |-> FALSE, prolog |-> prolog]
    ELSE LET b == IF prolog.base.set
                  THEN IriResolve(Compose(prolog.base.parsed), base) ELSE base
         IN  [ok |-> TRUE, prolog |-> [prolog EXCEPT !.base = StoredBase(b)]]

\* Prolog::add_prefix (a prefix matched by PNAME_NS is a valid prefix).
add_prefix_keep_first(prolog, p, ns) ==
    IF \E n \in 1..Len(prolog.prefixes) : prolog.prefixes[n][1] = p THEN prolog
    ELSE [prolog EXCEPT !.prefixes = Append(@, <<p, Resolve(prolog, ns)>>)]
add_prefix(prolog, p, ns) ==
    LET r == Resolve(prolog, ns)
        kept == SelectSeq(prolog.prefixes, LAMBDA e : e[1] # p)
    IN  [prolog EXCEPT !.prefixes = Append(kept, <<p, r>>)]

\* ------------------------------------------------------------------ Context
\* Context::default.  The h_* fields are history variables: they record what
\* the productions did and are never read by them.
\*   h_stmt  index of the statement being parsed
\*   h_push  every triple pushed, with the statement that pushed it
\*   h_coll  every non-empty collection desugared: the counter and the number
\*           of pushes before (cnt0, at) and after (cnt1, to), its elements
\*           and its value
\*   h_miss  prefixes looked up and not found while parsing statement h_stmt
\*   h_base  every call of Prolog::set_base made by the base production
\*   h_done  the outcome of every call of the statement production
\*   h_spo   every SpoList expanded by into_iter and pushed, with the number
\*           of pushes before (at) and after (to)
\*   h_mint  every blank node made: the kind ("labeled", "anon"), the label
\*           asked for, the term returned, the counter before and after
\*   h_own   for every SpoList pushed by the statement production itself, its
\*           index in h_spo and the statement
\*   h_pfx   in order, every prefix directive ("add": the name and the
\*           namespace it gives, resolved) and every prefixed name expanded
\*           ("use": the name, the local part and the IRI made)
ContextDefault ==
    [prolog |-> PrologDefault, bnode_cnt |-> 0, triple_stack |-> <<>>,
     h_stmt |-> 0, h_push |-> <<>>, h_coll |-> <<>>, h_miss |-> {},
     h_base |-> <<>>, h_done |-> <<>>, h_spo |-> <<>>, h_mint |-> <<>>,
     h_pfx |-> <<>>, h_own |-> <<>>]

AnonLabel(n) == "anon" \o ToString(n)

\* Context::new_labeled_bnode
new_labeled_bnode(ctx, label) ==
    [term |-> BNode(label),
     ctx |-> [ctx EXCEPT !.bnode_cnt = @ + 1,
                         !.h_mint = Append(@, [kind |-> "labeled", label |-> label,
                                               term |-> BNode(label),
                                               cnt0 |-> ctx.bnode_cnt,
                                               cnt1 |-> ctx.bnode_cnt + 1])]]

\* Context::new_anon_bnode
new_anon_bnode_no_increment(ctx) ==
    [term |-> BNode(AnonLabel(ctx.bnode_cnt)),
     ctx |-> [ctx EXCEPT !.h_mint = Append(@, [kind |-> "anon", label |-> "",
                                               term |-> BNode(AnonLabel(ctx.bnode_cnt)),
                                               cnt0 |-> ctx.bnode_cnt,
                                               cnt1 |-> ctx.bnode_cnt])]]
new_anon_bnode(ctx) ==
    [term |-> BNode(AnonLabel(ctx.bnode_cnt)),
     ctx |-> [ctx EXCEPT !.bnode_cnt = @ + 1,
                         !.h_mint = Append(@, [kind |-> "anon", label |-> "",
                                               term |-> BNode(AnonLabel(ctx.bnode_cnt)),
                                               cnt0 |-> ctx.bnode_cnt,
                                               cnt1 |-> ctx.bnode_cnt + 1])]]

\* Context::new_iri
new_iri(ctx, iri) == Iri(Resolve(ctx.prolog, iri))

\* Context::push_triple
push_triple_front(ctx, triple) ==
    [ctx EXCEPT !.triple_stack = <<triple>> \o @,
                !.h_push = Append(@, [tri |-> triple, stmt |-> ctx.h_stmt])]
push_triple(ctx, triple) ==
    [ctx EXCEPT !.triple_stack = Append(@, triple),
                !.h_push = Append(@, [tri |-> triple, stmt |-> ctx.h_stmt])]

\* Context::push_triples
RECURSIVE push_triples(_, _)
push_triples(ctx, src) ==
    IF src = <<>> THEN ctx ELSE push_triples(push_triple(ctx, Head(src)), Tail(src))

\* Context::pop_triple (the context after pop_front; the caller reads the head)
pop_triple_keep_front(ctx) == ctx
pop_triple(ctx) == [ctx EXCEPT !.triple_stack = Tail(@)]

\* ------------------------------------------------------------------ tokens
Tk(t) == [t |-> t, v |-> <<>>]
TkV(t, v) == [t |-> t, v |-> v]
WS == Tk("ws")
Tok(i) == IF i = <<>> THEN "eof" ELSE Head(i).t

\* Result of a production: nom's Ok((rest, val)), Err(Error) (hard = FALSE) or
\* Err(Failure) (hard = TRUE), with the context as the call left it.
POk(rest, val, ctx) ==
    [ok |-> TRUE, hard |-> FALSE, kind |-> "", rest |-> rest, val |-> val, ctx |-> ctx]
PErr(i, kind, ctx) ==
    [ok |-> FALSE, hard |-> FALSE, kind |-> kind, rest |-> i, val |-> <<>>, ctx |-> ctx]

\* multispace0: WS_MANY0 matches the longest run of whitespace and comments.
RECURSIVE multispace0(_)
multispace0(i) == IF Tok(i) = "ws" THEN multispace0(Tail(i)) ELSE i

\* A tuple of terminals: "ws0" is multispace0, "ws1" multispace1, any other
\* entry the terminal of that name.  caps are the values of the terminals.
RECURSIVE MatchSeq(_, _, _)
MatchSeq(i, pat, caps) ==
    IF pat = <<>> THEN [ok |-> TRUE, rest |-> i, caps |-> caps]
    ELSE IF Head(pat) = "ws0" THEN MatchSeq(multispace0(i), Tail(pat), caps)
    ELSE IF Head(pat) = "ws1"
         THEN IF Tok(i) = "ws" THEN MatchSeq(multispace0(i), Tail(pat), caps)
              ELSE [ok |-> FALSE, rest |-> i, caps |-> caps]
    ELSE IF Tok(i) = Head(pat)
         THEN MatchSeq(Tail(i), Tail(pat), Append(caps, Head(i).v))
         ELSE [ok |-> FALSE, rest |-> i, caps |-> caps]

\* ------------------------------------------------------------------ SpoList
PoList(predicate, objects) == [predicate |-> predicate, objects |-> objects]
SpoList(subject, po_lists) == [subject |-> subject, po_lists |-> po_lists]

\* PoList::into_iter with the subject of SpoList::into_iter
PoIter(s, pol) == [n \in 1..Len(pol.objects) |-> <<s, pol.predicate, pol.objects[n]>>]

\* SpoList::into_iter
RECURSIVE SpoFlatten(_, _)
SpoFlatten_set_of_objects(s, pols) ==
    IF pols = <<>> THEN <<>>
    ELSE LET pol == Head(pols)
             fresh == {n \in 1..Len(pol.objects) :
                          \A m \in 1..(n - 1) : pol.objects[m] # pol.objects[n]}
             kept == [pol EXCEPT !.objects = SelectSeq([n \in 1..Len(pol.objects) |-> <<n, pol.objects[n]>>],
                                                      LAMBDA e : e[1] \in fresh)]
         IN  [n \in 1..Len(kept.objects) |-> <<s, pol.predicate, kept.objects[n][2]>>]
                 \o SpoFlatten(s, Tail(pols))
SpoFlatten(s, pols) ==
    IF pols = <<>> THEN <<>> ELSE PoIter(s, Head(pols)) \o SpoFlatten(s, Tail(pols))
SpoIter(spo) == SpoFlatten(spo.subject, spo.po_lists)

\* ctx.push_triples(spo.into_iter()), recorded in h_spo
push_spo(ctx, spo) ==
    LET c == push_triples(ctx, SpoIter(spo))
    IN  [c EXCEPT !.h_spo = Append(@, [spo |-> spo, at |-> Len(ctx.h_push),
                                       to |-> Len(c.h_push)])]

\* ------------------------------------------------------------------ productions
RECURSIVE object(_, _), object_list(_, _), object_list_more(_, _, _),
          predicate_object_list(_, _), predicate_object_list_more(_, _, _),
          po_item(_, _), blank_node_property_list(_, _), collection(_, _),
          collection_items(_, _, _), collection_cells(_, _, _, _)

\* [135s] iri ::= IRIREF | PrefixedName, second alternative:
\* [136s] PrefixedName ::= PNAME_LN | PNAME_NS
prefixed_name(i, ctx) ==
    IF Tok(i) = "pname_ln"
    THEN LET ns == Head(i).v[1]
             suffix == Head(i).v[2]
         IN  IF HasPrefix(ctx.prolog, ns)
             THEN POk(Tail(i), Iri(NsGet(GetPrefix(ctx.prolog, ns), suffix)),
                      [ctx EXCEPT !.h_pfx = Append(@,
                          [ev |-> "use", name |-> ns, local |-> <<suffix>>,
                           iri |-> NsGet(GetPrefix(ctx.prolog, ns), suffix)])])
             ELSE PErr(i, "Verify", [ctx EXCEPT !.h_miss = @ \cup {ns}])
    ELSE IF Tok(i) = "pname_ns"
    THEN LET ns == Head(i).v[1]
         IN  IF HasPrefix(ctx.prolog, ns)
             THEN POk(Tail(i), Iri(GetPrefix(ctx.prolog, ns)),
                      [ctx EXCEPT !.h_pfx = Append(@,
                          [ev |-> "use", name |-> ns, local |-> <<>>,
                           iri |-> GetPrefix(ctx.prolog, ns)])])
             ELSE PErr(i, "MapOpt", [ctx EXCEPT !.h_miss = @ \cup {ns}])
    ELSE PErr(i, "RegexpCapture", ctx)

\* [135s] iri ::= IRIREF | PrefixedName
iri(i, ctx) ==
    IF Tok(i) = "iriref" THEN POk(Tail(i), new_iri(ctx, Head(i).v), ctx)
    ELSE prefixed_name(i, ctx)

\* [137s] BlankNode ::= BLANK_NODE_LABEL | ANON
blank_node(i, ctx) ==
    IF Tok(i) = "bnode_label"
    THEN LET b == new_labeled_bnode(ctx, Head(i).v[1]) IN POk(Tail(i), b.term, b.ctx)
    ELSE LET m == MatchSeq(i, <<"[", "ws0", "]">>, <<>>)
         IN  IF m.ok THEN LET b == new_anon_bnode(ctx) IN POk(m.rest, b.term, b.ctx)
             ELSE PErr(i, "RegexpCapture", ctx)

\* [17] String (the escape sequences are not applied)
string(i, ctx) ==
    IF Tok(i) = "string" THEN POk(Tail(i), Head(i).v[1], ctx)
    ELSE PErr(i, "RegexpCapture", ctx)

\* [128s] RDFLiteral ::= String (LANGTAG | '^^' iri)?
rdf_literal(i, ctx) ==
    LET s == string(i, ctx)
    IN  IF ~s.ok THEN s
        ELSE LET dt == IF Tok(s.rest) = "^^" THEN iri(Tail(s.rest), ctx)
                       ELSE PErr(s.rest, "Tag", ctx)
             IN  IF dt.ok THEN POk(dt.rest, LiteralDt(s.val, dt.val.v), dt.ctx)
                 ELSE IF Tok(s.rest) = "langtag"
                      THEN POk(Tail(s.rest), LiteralLang(s.val, Head(s.rest).v[1]), dt.ctx)
                      ELSE POk(s.rest, LiteralDt(s.val, xsd_string), dt.ctx)

\* The characters of a number are the tokens "sign" (+ or -), "digits" (a
\* run of digits), "." and "exp" ([eE][+-]?digits), written without white
\* space between them.  A regex matches at the start of the input and gives
\* the text matched and the input after it.
ReOk(txt, rest) == [ok |-> TRUE, txt |-> txt, rest |-> rest]
ReNo(i) == [ok |-> FALSE, txt |-> "", rest |-> i]
ReSign(i) == IF Tok(i) = "sign" THEN ReOk(Head(i).v[1], Tail(i)) ELSE ReOk("", i)
ReDigits0(i) == IF Tok(i) = "digits" THEN ReOk(Head(i).v[1], Tail(i)) ELSE ReOk("", i)

\* INTEGER  ^[+-]?[[:digit:]]+
INTEGER(i) ==
    LET s == ReSign(i)
    IN  IF Tok(s.rest) = "digits" THEN ReOk(s.txt \o Head(s.rest).v[1], Tail(s.rest))
        ELSE ReNo(i)

\* DECIMAL  ^[+-]?[[:digit:]]*\.[[:digit:]]+
DECIMAL(i) ==
    LET s == ReSign(i)
        d == ReDigits0(s.rest)
    IN  IF Tok(d.rest) = "." /\ Tok(Tail(d.rest)) = "digits"
        THEN ReOk(s.txt \o d.txt \o "." \o Head(Tail(d.rest)).v[1], Tail(Tail(d.rest)))
        ELSE ReNo(i)

\* DOUBLE  ^[+-]?((digits \. digits* exp)|(\. digits exp)|(digits exp))
DOUBLE(i) ==
    LET s == ReSign(i)
        r == s.rest
    IN  IF Tok(r) = "digits" /\ Tok(Tail(r)) = "." /\ Tok(ReDigits0(Tail(Tail(r))).rest) = "exp"
        THEN LET f == ReDigits0(Tail(Tail(r)))
             IN  ReOk(s.txt \o Head(r).v[1] \o "." \o f.txt \o Head(f.rest).v[1],
                      Tail(f.rest))
        ELSE IF Tok(r) = "." /\ Tok(Tail(r)) = "digits" /\ Tok(Tail(Tail(r))) = "exp"
        THEN ReOk(s.txt \o "." \o r[2].v[1] \o r[3].v[1], Tail(Tail(Tail(r))))
        ELSE IF Tok(r) = "digits" /\ Tok(Tail(r)) = "exp"
        THEN ReOk(s.txt \o r[1].v[1] \o r[2].v[1], Tail(Tail(r)))
        ELSE ReNo(i)

\* [16] NumericLiteral ::= INTEGER | DECIMAL | DOUBLE
\* alt((INTEGER, DECIMAL, DOUBLE)): the first regex that matches decides.
numeric_literal(i, ctx) ==
    IF INTEGER(i).ok THEN POk(INTEGER(i).rest, LiteralDt(INTEGER(i).txt, xsd_integer), ctx)
    ELSE IF DECIMAL(i).ok
    THEN POk(DECIMAL(i).rest, LiteralDt(DECIMAL(i).txt, xsd_decimal), ctx)
    ELSE IF DOUBLE(i).ok
    THEN POk(DOUBLE(i).rest, LiteralDt(DOUBLE(i).txt, xsd_double), ctx)
    ELSE PErr(i, "RegexpCapture", ctx)

\* [133s] BooleanLiteral ::= 'true' | 'false'
boolean_literal(i, ctx) ==
    IF Tok(i) = "bool" THEN POk(Tail(i), LiteralDt(Head(i).v[1], xsd_boolean), ctx)
    ELSE PErr(i, "Tag", ctx)

\* [13] literal ::= RDFLiteral | NumericLiteral | BooleanLiteral
\* a is the outcome of the first alternative.
literal_numeric(i, a) ==
    IF a.ok \/ a.hard THEN a
    ELSE LET b == numeric_literal(i, a.ctx)
         IN  IF b.ok \/ b.hard THEN b ELSE boolean_literal(i, b.ctx)
literal(i, ctx) == literal_numeric(i, rdf_literal(i, ctx))

\* [11] predicate ::= iri
predicate(i, ctx) == iri(i, ctx)

\* [9] verb ::= predicate | 'a'
verb(i, ctx) ==
    LET p == predicate(i, ctx)
    IN  IF p.ok \/ p.hard THEN p
        ELSE IF Tok(i) = "a" THEN POk(Tail(i), rdf_type, p.ctx)
        ELSE PErr(i, "Tag", p.ctx)

\* [15] collection ::= '(' object* ')': the loop over the parsed contents.
collection_cells_rest_first(ctx, contents, idx, cur) ==
    LET last == (idx = Len(contents))
        nx == IF last THEN [term |-> rdf_nil, ctx |-> ctx] ELSE new_anon_bnode(ctx)
        c1 == push_triple(nx.ctx, <<cur, rdf_rest, nx.term>>)
        c2 == push_triple(c1, <<cur, rdf_first, contents[idx]>>)
    IN  IF last THEN c2 ELSE collection_cells(c2, contents, idx + 1, nx.term)
collection_cells(ctx, contents, idx, cur) ==
    LET last == (idx = Len(contents))
        nx == IF last THEN [term |-> rdf_nil, ctx |-> ctx] ELSE new_anon_bnode(ctx)
        c1 == push_triple(nx.ctx, <<cur, rdf_first, contents[idx]>>)
        c2 == push_triple(c1, <<cur, rdf_rest, nx.term>>)
    IN  IF last THEN c2 ELSE collection_cells(c2, contents, idx + 1, nx.term)

\* separated_list(multispace1, object) after its first element
\* separated_list(multispace1, object) with the outcome o of an element
\* parsed after the elements res: Err(Error) ends the list at `back`, an
\* element that consumed nothing is Err(SeparatedList).
collection_elem(o, back, res) ==
    IF ~o.ok THEN (IF o.hard THEN o ELSE POk(back, res, o.ctx))
    ELSE IF o.rest = back THEN PErr(o.rest, "SeparatedList", o.ctx)
    ELSE collection_items(o.rest, Append(res, o.val), o.ctx)

\* separated_list(multispace1, object) after an element
collection_items(i, res, ctx) ==
    IF Tok(i) # "ws" THEN POk(i, res, ctx)
    ELSE collection_elem(object(multispace0(i), ctx), i, res)

\* multispace0, ')' and the desugaring of the contents l.val
collection_close_empty_cell(l) ==
    IF ~l.ok THEN l
    ELSE LET i2 == multispace0(l.rest)
         IN  IF Tok(i2) # ")" THEN PErr(i2, "Tag", l.ctx)
             ELSE LET first == new_anon_bnode(l.ctx)
                      done == IF l.val = <<>>
                              THEN push_triple(first.ctx, <<first.term, rdf_rest, rdf_nil>>)
                              ELSE collection_cells(first.ctx, l.val, 1, first.term)
                  IN  POk(Tail(i2), first.term, done)
collection_close(l) ==
    IF ~l.ok THEN l
    ELSE LET i2 == multispace0(l.rest)
         IN  IF Tok(i2) # ")" THEN PErr(i2, "Tag", l.ctx)
             ELSE IF l.val = <<>> THEN POk(Tail(i2), rdf_nil, l.ctx)
             ELSE LET first == new_anon_bnode(l.ctx)
                      done == collection_cells(first.ctx, l.val, 1, first.term)
                      rec == [n |-> Len(l.val), cnt0 |-> l.ctx.bnode_cnt,
                              cnt1 |-> done.bnode_cnt,
                              at |-> Len(l.ctx.h_push), to |-> Len(done.h_push),
                              elems |-> l.val, value |-> first.term]
                  IN  POk(Tail(i2), first.term, [done EXCEPT !.h_coll = Append(@, rec)])

collection(i, ctx) ==
    IF Tok(i) # "(" THEN PErr(i, "Tag", ctx)
    ELSE LET i1 == multispace0(Tail(i))
         IN  collection_close(collection_elem(object(i1, ctx), i1, <<>>))

\* [14] blankNodePropertyList ::= '[' predicateObjectList ']'
\* c is the outcome of predicateObjectList.
blank_node_property_list_close(c) ==
    IF ~c.ok THEN c
    ELSE LET i2 == multispace0(c.rest)
         IN  IF Tok(i2) # "]" THEN PErr(i2, "Tag", c.ctx)
             ELSE POk(Tail(i2), c.val, c.ctx)
blank_node_property_list(i, ctx) ==
    IF Tok(i) # "[" THEN PErr(i, "Tag", ctx)
    ELSE blank_node_property_list_close(predicate_object_list(multispace0(Tail(i)), ctx))

\* [12] object ::= iri | BlankNode | collection | blankNodePropertyList | literal
\* d is the outcome of blankNodePropertyList, the fourth alternative.
object_blank(i, d) ==
    IF d.hard THEN d
    ELSE IF d.ok
    THEN LET bn == new_anon_bnode(d.ctx)
             spos == SpoList(bn.term, d.val)
         IN  POk(d.rest, bn.term, push_spo(bn.ctx, spos))
    ELSE literal(i, d.ctx)
\* c is the outcome of collection, the third alternative.
object_collection(i, c) ==
    IF c.ok \/ c.hard THEN c ELSE object_blank(i, blank_node_property_list(i, c.ctx))
object(i, ctx) ==
    LET a == iri(i, ctx)
    IN  IF a.ok \/ a.hard THEN a ELSE
        LET b == blank_node(i, a.ctx)
        IN  IF b.ok \/ b.hard THEN b ELSE object_collection(i, collection(i, b.ctx))

\* [8] objectList ::= object (',' object)*
\* separated_list with the outcome o of an object parsed after the objects res
object_list_elem(o, back, res) ==
    IF ~o.ok THEN (IF o.hard THEN o ELSE POk(back, res, o.ctx))
    ELSE IF o.rest = back THEN PErr(o.rest, "SeparatedList", o.ctx)
    ELSE object_list_more(o.rest, Append(res, o.val), o.ctx)

object_list_more(i, res, ctx) ==
    LET s == MatchSeq(i, <<"ws0", ",", "ws0">>, <<>>)
    IN  IF ~s.ok THEN POk(i, res, ctx)
        ELSE object_list_elem(object(s.rest, ctx), i, res)

object_list(i, ctx) == object_list_elem(object(i, ctx), i, <<>>)

\* The item of predicateObjectList: verb multispace1 objectList
po_item_map(v, ol) ==
    IF ~ol.ok THEN ol ELSE POk(ol.rest, PoList(v.val, ol.val), ol.ctx)
po_item(i, ctx) ==
    LET v == verb(i, ctx)
    IN  IF ~v.ok THEN v
        ELSE IF Tok(v.rest) # "ws" THEN PErr(v.rest, "RegexpCapture", v.ctx)
        ELSE po_item_map(v, object_list(multispace0(v.rest), v.ctx))

\* [7] predicateObjectList ::= verb objectList (';' (verb objectList)?)*
\* separated_list with the outcome e of an item parsed after the items res
predicate_object_list_elem(e, back, res) ==
    IF ~e.ok THEN (IF e.hard THEN e ELSE POk(back, res, e.ctx))
    ELSE IF e.rest = back THEN PErr(e.rest, "SeparatedList", e.ctx)
    ELSE predicate_object_list_more(e.rest, Append(res, e.val), e.ctx)

predicate_object_list_more(i, res, ctx) ==
    LET s == MatchSeq(i, <<"ws0", ";", "ws0">>, <<>>)
    IN  IF ~s.ok THEN POk(i, res, ctx)
        ELSE predicate_object_list_elem(po_item(s.rest, ctx), i, res)

predicate_object_list(i, ctx) == predicate_object_list_elem(po_item(i, ctx), i, <<>>)

\* [10] subject ::= iri | BlankNode | collection
subject(i, ctx) ==
    LET a == iri(i, ctx)
    IN  IF a.ok \/ a.hard THEN a ELSE
        LET b == blank_node(i, a.ctx)
        IN  IF b.ok \/ b.hard THEN b ELSE collection(i, b.ctx)

\* [6] triples ::= subject predicateObjectList
\*               | blankNodePropertyList predicateObjectList?
\* First alternative: s is the outcome of subject, po of predicateObjectList.
triples_map(s, po) ==
    IF ~po.ok THEN po ELSE POk(po.rest, SpoList(s.val, po.val), po.ctx)
triples_subject(s) ==
    IF ~s.ok THEN s
    ELSE IF Tok(s.rest) # "ws" THEN PErr(s.rest, "RegexpCapture", s.ctx)
    ELSE triples_map(s, predicate_object_list(multispace0(s.rest), s.ctx))

\* Second alternative: bl is the outcome of blankNodePropertyList, outer of
\* the optional predicateObjectList.
triples_blank_map(bl, outer) ==
    IF outer.hard THEN outer
    ELSE LET rest == IF outer.ok THEN outer.rest ELSE bl.rest
             bn_po == IF outer.ok THEN bl.val \o outer.val ELSE bl.val
             bn == new_anon_bnode(outer.ctx)
         IN  POk(rest, SpoList(bn.term, bn_po), bn.ctx)
triples_blank(bl) ==
    IF ~bl.ok THEN bl
    ELSE triples_blank_map(bl, predicate_object_list(bl.rest, bl.ctx))

\* a is the outcome of the first alternative.
triples_alt(i, a) ==
    IF a.ok \/ a.hard THEN a ELSE triples_blank(blank_node_property_list(i, a.ctx))
triples(i, ctx) == triples_alt(i, triples_subject(subject(i, ctx)))

\* [4] prefixID ::= '@prefix' PNAME_NS IRIREF '.'
\* [6s] sparqlPrefix ::= "PREFIX" PNAME_NS IRIREF
prefix_id(i, ctx) ==
    LET a == MatchSeq(i, <<"@prefix", "ws1", "pname_ns", "ws0", "iriref", "ws0", ".">>, <<>>)
        b == MatchSeq(i, <<"PREFIX", "ws1", "pname_ns", "ws0", "iriref">>, <<>>)
        m == IF a.ok THEN a ELSE b
    IN  IF ~m.ok THEN PErr(m.rest, "Tag", ctx)
        ELSE POk(m.rest, <<>>,
                 [ctx EXCEPT !.prolog = add_prefix(@, m.caps[2][1], m.caps[3]),
                             !.h_pfx = Append(@,
                                 [ev |-> "add", name |-> m.caps[2][1], local |-> <<>>,
                                  iri |-> Resolve(ctx.prolog, m.caps[3])])])

\* [5] base ::= '@base' IRIREF '.'
\* [5s] sparqlBase ::= "BASE" IRIREF
base(i, ctx) ==
    LET a == MatchSeq(i, <<"@base", "ws0", "iriref", "ws0", ".">>, <<>>)
        b == MatchSeq(i, <<"BASE", "ws0", "iriref">>, <<>>)
        m == IF a.ok THEN a ELSE b
    IN  IF ~m.ok THEN PErr(m.rest, "Tag", ctx)
        ELSE LET r == set_base(ctx.prolog, m.caps[2], FALSE)
                 log == [old |-> ctx.prolog.base, arg |-> m.caps[2],
                         new |-> r.prolog.base]
             IN  IF r.ok THEN POk(m.rest, <<>>, [ctx EXCEPT !.prolog = r.prolog,
                                                            !.h_base = Append(@, log)])
                 ELSE PErr(m.rest, "Verify", ctx)

\* [3] directive ::= prefixID | base | sparqlPrefix | sparqlBase
directive(i, ctx) ==
    LET a == prefix_id(i, ctx)
    IN  IF a.ok \/ a.hard THEN a ELSE base(i, a.ctx)

\* [2] statement ::= directive | triples '.'
\* val.some tells whether `parsed` was Some(spo); val.n is the number of
\* triples of spo.
\* t is the outcome of triples, the second alternative.
push_own(ctx, spo) ==
    [push_spo(ctx, spo) EXCEPT
        !.h_own = Append(@, [spo |-> Len(ctx.h_spo) + 1, stmt |-> ctx.h_stmt])]
statement_triples_push_before_dot(t) ==
    IF ~t.ok THEN t
    ELSE LET i2 == multispace0(t.rest)
         IN  IF Tok(i2) # "." THEN PErr(i2, "Tag", push_own(t.ctx, t.val))
             ELSE POk(Tail(i2), [some |-> TRUE, n |-> Len(SpoIter(t.val))],
                      push_own(t.ctx, t.val))
statement_triples(t) ==
    IF ~t.ok THEN t
    ELSE LET i2 == multispace0(t.rest)
         IN  IF Tok(i2) # "." THEN PErr(i2, "Tag", t.ctx)
             ELSE POk(Tail(i2), [some |-> TRUE, n |-> Len(SpoIter(t.val))],
                      push_own(t.ctx, t.val))
statement(i, ctx) ==
    LET d == directive(i, ctx)
    IN  IF d.ok THEN POk(d.rest, [some |-> FALSE, n |-> 0], d.ctx)
        ELSE IF d.hard THEN d
        ELSE statement_triples(triples(i, d.ctx))

\* ------------------------------------------------------------------ Parser
\* The item returned by Parser::next: None, Some(Ok(tri)) or Some(Err(e)).
\* An error is Error::Parser(e.to_string()); `arg` keeps the nom ErrorKind
\* of the message.
NoErr == [variant |-> "", arg |-> ""]
ItemNone == [kind |-> "none", tri |-> <<>>, err |-> NoErr]
ItemTriple(tri) == [kind |-> "triple", tri |-> tri, err |-> NoErr]
ItemErr(e) == [kind |-> "err", tri |-> <<>>, err |-> e]
ErrorParser(nomKind) == [variant |-> "Parser", arg |-> nomKind]

\* Parser::new
ParserNew_keep_whitespace(doc) ==
    [ctx |-> ContextDefault, current |-> doc, end_or_failed |-> FALSE]
ParserNew(doc) ==
    [ctx |-> ContextDefault, current |-> multispace0(doc), end_or_failed |-> FALSE]

\* Parser::with_base
ParserWithBase_ignore_base(doc, b) ==
    [ctx |-> ContextDefault, current |-> multispace0(doc), end_or_failed |-> FALSE]
ParserWithBase(doc, b) ==
    [ctx |-> [ContextDefault EXCEPT !.prolog = set_base(@, b, FALSE).prolog],
     current |-> multispace0(doc), end_or_failed |-> FALSE]

\* The outcome r of a call of the statement production, recorded in h_done.
StepDone(r) ==
    LET done == [ok |-> r.ok, some |-> IF r.ok THEN r.val.some ELSE FALSE,
                 n |-> IF r.ok THEN r.val.n ELSE 0, miss |-> r.ctx.h_miss,
                 err |-> IF r.ok THEN NoErr ELSE ErrorParser(r.kind)]
    IN  [r EXCEPT !.ctx = [@ EXCEPT !.h_done = Append(@, done)]]

\* The call of the statement production made by Parser::next.
ParseStep(p) ==
    StepDone(statement(p.current, [p.ctx EXCEPT !.h_stmt = @ + 1, !.h_miss = {}]))

\* Parser::next
RECURSIVE next(_)

\* Parser::next, the match on the outcome `step` of the statement production
next_match_no_latch(p, step) ==
    IF ~step.ok
    THEN [p |-> [p EXCEPT !.ctx = step.ctx],
          item |-> ItemErr(ErrorParser(step.kind))]
    ELSE next([p EXCEPT !.ctx = step.ctx, !.current = multispace0(step.rest)])
next_match_swallow_error(p, step) ==
    IF ~step.ok
    THEN [p |-> [p EXCEPT !.ctx = step.ctx, !.end_or_failed = TRUE], item |-> ItemNone]
    ELSE next([p EXCEPT !.ctx = step.ctx, !.current = multispace0(step.rest)])
next_match(p, step) ==
    IF ~step.ok
    THEN [p |-> [p EXCEPT !.ctx = step.ctx, !.end_or_failed = TRUE],
          item |-> ItemErr(ErrorParser(step.kind))]
    ELSE next([p EXCEPT !.ctx = step.ctx, !.current = multispace0(step.rest)])

next_pop_before_latch(p) ==
    IF p.ctx.triple_stack # <<>>
    THEN [p |-> [p EXCEPT !.ctx = pop_triple(@)],
          item |-> ItemTriple(Head(p.ctx.triple_stack))]
    ELSE IF p.end_or_failed THEN [p |-> p, item |-> ItemNone]
    ELSE IF p.current = <<>>
    THEN [p |-> [p EXCEPT !.end_or_failed = TRUE], item |-> ItemNone]
    ELSE next_match(p, ParseStep(p))
next(p) ==
    IF p.end_or_failed THEN [p |-> p, item |-> ItemNone]
    ELSE IF p.ctx.triple_stack # <<>>
    THEN [p |-> [p EXCEPT !.ctx = pop_triple(@)],
          item |-> ItemTriple(Head(p.ctx.triple_stack))]
    ELSE IF p.current = <<>>
    THEN [p |-> [p EXCEPT !.end_or_failed = TRUE], item |-> ItemNone]
    ELSE next_match(p, ParseStep(p))

\* ------------------------------------------------------------------ Parser methods
\* The productions written as methods of Parser (parse/turtle/production.rs).
\* Their errors are PosError(i, e): `kind` is the variant of e and `val` its
\* argument.
PFailed(i, variant, arg, ctx) ==
    [ok |-> FALSE, hard |-> TRUE, kind |-> variant, rest |-> i, val |-> arg, ctx |-> ctx]

\* Parser::iriref
ParserIriref(i, ctx) ==
    IF Tok(i) = "iriref" THEN POk(Tail(i), new_iri(ctx, Head(i).v), ctx)
    ELSE PErr(i, "Kind", ctx)

\* Parser::prefixed_name
ParserPrefixedName(i, ctx) ==
    IF Tok(i) \notin {"pname_ln", "pname_ns"} THEN PErr(i, "Kind", ctx)
    ELSE LET ns == Head(i).v[1]
         IN  IF ~HasPrefix(ctx.prolog, ns) THEN PFailed(i, "InvalidPrefix", <<ns>>, ctx)
             ELSE IF Tok(i) = "pname_ln"
             THEN POk(Tail(i), Iri(NsGet(GetPrefix(ctx.prolog, ns), Head(i).v[2])), ctx)
             ELSE POk(Tail(i), Iri(GetPrefix(ctx.prolog, ns)), ctx)

\* The call p(self, i) of an alternative handed to Parser::alt
ParserCall(name, i, ctx) ==
    IF name = "iriref" THEN ParserIriref(i, ctx) ELSE ParserPrefixedName(i, ctx)

\* Parser::alt.  `called` is a history value: the alternatives invoked, in
\* order, each with its outcome.
RECURSIVE ParserAlt(_, _, _, _)
ParserAltOutcome(name, r) == [name |-> name, ok |-> r.ok, hard |-> r.hard, kind |-> r.kind]
ParserAlt_skip_any_error(i, ctx, parsers, called) ==
    IF parsers = <<>> THEN [res |-> PErr(i, "NoMatch", ctx), called |-> called]
    ELSE LET r == ParserCall(Head(parsers), i, ctx)
             log == Append(called, ParserAltOutcome(Head(parsers), r))
         IN  IF ~r.ok THEN ParserAlt(i, r.ctx, Tail(parsers), log)
             ELSE [res |-> r, called |-> log]
ParserAlt(i, ctx, parsers, called) ==
    IF parsers = <<>> THEN [res |-> PErr(i, "NoMatch", ctx), called |-> called]
    ELSE LET r == ParserCall(Head(parsers), i, ctx)
             log == Append(called, ParserAltOutcome(Head(parsers), r))
         IN  IF ~r.ok /\ ~r.hard THEN ParserAlt(i, r.ctx, Tail(parsers), log)
             ELSE [res |-> r, called |-> log]

\* Parser::iri
ParserIri(i, ctx) == ParserAlt(i, ctx, <<"iriref", "prefixed_name">>, <<>>)

\* ------------------------------------------------------------------ documents
Rel(x) == TkV("iriref", <<"", x>>)
Str(x) == TkV("string", <<x>>)
Num(x) == TkV("digits", <<x>>)
Sign(x) == TkV("sign", <<x>>)
Exp(x) == TkV("exp", <<x>>)
PnLn(pfx, local) == TkV("pname_ln", <<pfx, local>>)
PnNs(pfx) == TkV("pname_ns", <<pfx>>)
Label(b) == TkV("bnode_label", <<b>>)
NL == TkV("ws", <<"nl">>)
SPO == <<Rel("s"), WS, Rel("p"), WS>>
DOT == <<WS, Tk("."), NL>>

\* The statements documents are built from.
Frags == <<
    \* 1   <s> <p> <o> .
    SPO \o <<Rel("o")>> \o DOT,
    \* 2   <s> <p> <o> , "x" ; <q> 1 .
    SPO \o <<Rel("o"), WS, Tk(","), WS, Str("x"), WS, Tk(";"), WS, Rel("q"), WS,
             Num("1")>> \o DOT,
    \* 3   <s> <p> ( 1 2 3 ) .
    SPO \o <<Tk("("), WS, Num("1"), WS, Num("2"), WS, Num("3"), WS, Tk(")")>> \o DOT,
    \* 4   <s> <p> ( ( <x> ) 2 ) .
    SPO \o <<Tk("("), WS, Tk("("), WS, Rel("x"), WS, Tk(")"), WS, Num("2"), WS,
             Tk(")")>> \o DOT,
    \* 5   <s> <p> [ <q> 1 ] , ( ) .
    SPO \o <<Tk("["), WS, Rel("q"), WS, Num("1"), WS, Tk("]"), WS, Tk(","), WS,
             Tk("("), WS, Tk(")")>> \o DOT,
    \* 6   [ <q> true ] .
    <<Tk("["), WS, Rel("q"), WS, TkV("bool", <<"true">>), WS, Tk("]")>> \o DOT,
    \* 7   [] a _:b .
    <<Tk("["), Tk("]"), WS, Tk("a"), WS, Label("b")>> \o DOT,
    \* 8   @base <http://a/b/> .
    <<Tk("@base"), WS, TkV("iriref", <<"http://a", "b", "">>)>> \o DOT,
    \* 9   @base <c/> .  <d> <p> <../e> .
    <<Tk("@base"), WS, TkV("iriref", <<"", "c", "">>)>> \o DOT
        \o <<Rel("d"), WS, Rel("p"), WS, TkV("iriref", <<"", "..", "e">>)>> \o DOT,
    \* 10  @prefix ex: <http://e/> .
    <<Tk("@prefix"), WS, PnNs("ex"), WS, TkV("iriref", <<"http://e", "">>)>> \o DOT,
    \* 11  ex:s ex:p ex: .
    <<PnLn("ex", "s"), WS, PnLn("ex", "p"), WS, PnNs("ex")>> \o DOT,
    \* 12  <s> <p> un:term .
    SPO \o <<PnLn("un", "term")>> \o DOT,
    \* 13  <s> <p> .
    <<Rel("s"), WS, Rel("p")>> \o DOT,
    \* 14  <s> .
    <<Rel("s")>> \o DOT,
    \* 15  <s> <p> ( 1 ) <o> .
    SPO \o <<Tk("("), WS, Num("1"), WS, Tk(")"), WS, Rel("o")>> \o DOT,
    \* 16  <s> <p> "x"@en , "1"^^<http://www.w3.org/2001/XMLSchema#integer> .
    SPO \o <<Str("x"), TkV("langtag", <<"en">>), WS, Tk(","), WS, Str("1"), Tk("^^"),
             TkV("iriref", xsd_integer)>> \o DOT,
    \* 17  PREFIX ex: <f/>   BASE <http://g/>
    <<Tk("PREFIX"), WS, PnNs("ex"), WS, TkV("iriref", <<"", "f", "">>), NL,
      Tk("BASE"), WS, TkV("iriref", <<"http://g", "">>), NL>>,
    \* 18  <s> <p> un: .
    SPO \o <<PnNs("un")>> \o DOT,
    \* 19  <s> <p> <o> , <o> ; <p> <o> , _:b .
    SPO \o <<Rel("o"), WS, Tk(","), WS, Rel("o"), WS, Tk(";"), WS, Rel("p"), WS,
             Rel("o"), WS, Tk(","), WS, Label("b")>> \o DOT,
    \* 20  []<p> [] .
    <<Tk("["), Tk("]"), Rel("p"), WS, Tk("["), Tk("]")>> \o DOT,
    \* 21  a blank line and a comment line
    <<NL, TkV("ws", <<"comment">>), NL>>,
    \* 22  ex:s ex:p ex: .  @prefix ex: <http://n/> .  ex:s ex:p ex: .
    <<PnLn("ex", "s"), WS, PnLn("ex", "p"), WS, PnNs("ex")>> \o DOT
        \o <<Tk("@prefix"), WS, PnNs("ex"), WS, TkV("iriref", <<"http://n", "">>)>> \o DOT
        \o <<PnLn("ex", "s"), WS, PnLn("ex", "p"), WS, PnNs("ex")>> \o DOT,
    \* 23  <s> <p> -1 , 1.5 .
    SPO \o <<Sign("-"), Num("1"), WS, Tk(","), WS, Num("1"), Tk("."), Num("5")>> \o DOT,
    \* 24  _:anon1 <p> [] .
    <<Label("anon1"), WS, Rel("p"), WS, Tk("["), Tk("]")>> \o DOT
>>
NumFrags == Len(Frags)

RECURSIVE Doc(_)
Doc(sel) == IF sel = <<>> THEN <<>> ELSE Frags[Head(sel)] \o Doc(Tail(sel))

\* The base handed to Parser::with_base.
PresetBase == <<"http://h", "x", "">>

\* ------------------------------------------------------------------ Serializer
\* The target is the text written so far, as the sequence of its lexical
\* tokens; white space keeps what was written ("sp" n: n spaces, "tab", "nl").
DEFAULT_SPACES == 4
Spaces(n) == [kind |-> "Spaces", n |-> n]
IndentNone == [kind |-> "None", n |-> 0]
SP1 == TkV("ws", <<"sp", "1">>)

\* Indentation::serialize
IndentationSerialize(ind) ==
    IF ind.kind = "Spaces"
    THEN (IF ind.n = 0 THEN <<>> ELSE <<TkV("ws", <<"sp", ToString(ind.n)>>)>>)
    ELSE IF ind.kind = "Tab" THEN <<TkV("ws", <<"tab">>)>>
    ELSE <<>>

\* Config::default with the given base and prefixes
Config(b, prefixes, ind) ==
    [base |-> b, prefixes |-> prefixes, indent |-> ind, space |-> Spaces(1)]

\* Config::write_indent, Config::write_space
write_indent(config) == IndentationSerialize(config.indent)
write_space(config) == IndentationSerialize(config.space)

\* impl Serializable<Turtle> for Term: the datatype and the language tag of a
\* literal are not written.
term_serialize(t) ==
    IF t.k = "iri" THEN <<TkV("iriref", t.v)>>
    ELSE IF t.k = "lit" THEN <<TkV("string", t.v)>>
    ELSE IF t.k = "bnode" THEN <<TkV("bnode_label", t.v)>>
    ELSE <<TkV("var", t.v)>>

\* One line of the preamble: "@prefix p: <ns> .\n", "@base <iri> .\n"
PrefixLine(e) ==
    <<Tk("@prefix"), SP1, PnNs(e[1]), SP1, TkV("iriref", e[2]), SP1, Tk("."), NL>>
BaseLine(b) == <<Tk("@base"), SP1, TkV("iriref", b), SP1, Tk("."), NL>>

RECURSIVE PrefixLines(_, _)
PrefixLines(prefixes, order) ==
    IF order = <<>> THEN <<>>
    ELSE PrefixLine(prefixes[Head(order)]) \o PrefixLines(prefixes, Tail(order))

\* Turtle::write_preamble; `order` is the iteration order of the HashMap.
write_preamble_always_blank(config, order) ==
    PrefixLines(config.prefixes, order)
        \o (IF config.base.set THEN BaseLine(config.base.iri) ELSE <<>>)
        \o <<NL>>
write_preamble(config, order) ==
    LET lines == PrefixLines(config.prefixes, order)
                 \o (IF config.base.set THEN BaseLine(config.base.iri) ELSE <<>>)
        wrote_something == config.prefixes # <<>> \/ config.base.set
    IN  lines \o (IF wrote_something THEN <<NL>> ELSE <<>>)

\* The sink of a Serializer: an io::Write that never fails, or one that
\* takes `room` more writes and fails every write after them.
NoLimit == [limited |-> FALSE, room |-> 0]
Limit(n) == [limited |-> TRUE, room |-> n]

\* Serializer::new.  err is the error of the call in progress ("" for none).
\* The h_* fields are history fields:
\*   h_ops    the write_spo, write_po, write_o, finish_block calls that returned Ok
\*   h_io     every write on the sink and every item pulled from a source:
\*            the call (serialize or finish) that made it, whether it was Ok,
\*            and the target after it
\*   h_calls  the result of every serialize and finish call
SerializerNew(config, order) ==
    [target |-> write_preamble(config, order), config |-> config, indent_level |-> 0,
     sink |-> NoLimit, err |-> "", h_ops |-> <<>>, h_io |-> <<>>, h_calls |-> <<>>]

\* One write_all or write! on the target; nothing is written for no bytes.
sink_write(ser, piece) ==
    IF piece = <<>> THEN ser
    ELSE IF ser.sink.limited /\ ser.sink.room = 0
    THEN [ser EXCEPT !.err = "sink",
                     !.h_io = Append(@, [call |-> Len(ser.h_calls) + 1, ev |-> "write",
                                         ok |-> FALSE, tgt |-> ser.target])]
    ELSE [ser EXCEPT !.target = @ \o piece,
                     !.sink.room = IF ser.sink.limited THEN @ - 1 ELSE @,
                     !.h_io = Append(@, [call |-> Len(ser.h_calls) + 1, ev |-> "write",
                                         ok |-> TRUE, tgt |-> ser.target \o piece])]

\* Writes made one after the other, each followed by `?`
RECURSIVE write_each(_, _)
write_each_ignore_error(ser, pieces) ==
    IF pieces = <<>> THEN ser
    ELSE write_each(sink_write(ser, Head(pieces)), Tail(pieces))
write_each(ser, pieces) ==
    IF pieces = <<>> THEN ser
    ELSE LET w == sink_write(ser, Head(pieces))
         IN  IF w.err # "" THEN w ELSE write_each(w, Tail(pieces))

\* Serializer::indent: the writes it makes
indent(ser) == [n \in 1..ser.indent_level |-> write_indent(ser.config)]

\* Serializer::write_spo
write_spo(ser, tri) ==
    LET w == write_each(ser, <<term_serialize(tri[1]), write_space(ser.config),
                               term_serialize(tri[2]), write_space(ser.config),
                               term_serialize(tri[3])>>)
    IN  IF w.err # "" THEN w
        ELSE [w EXCEPT !.indent_level = @ + 1,
                       !.h_ops = Append(@, [op |-> "spo", tri |-> tri])]

\* Serializer::write_po
write_po(ser, tri) ==
    LET w == write_each(ser, <<<<SP1, Tk(";"), NL>>>> \o indent(ser)
                             \o <<term_serialize(tri[2]), write_space(ser.config),
                                  term_serialize(tri[3])>>)
    IN  IF w.err # "" THEN w
        ELSE [w EXCEPT !.h_ops = Append(@, [op |-> "po", tri |-> tri])]

\* Serializer::write_o
write_o(ser, tri) ==
    LET w == write_each(ser, <<<<Tk(",")>>, write_space(ser.config),
                               term_serialize(tri[3])>>)
    IN  IF w.err # "" THEN w
        ELSE [w EXCEPT !.h_ops = Append(@, [op |-> "o", tri |-> tri])]

\* Serializer::finish_block
finish_block(ser) ==
    LET w == write_each(ser, <<<<SP1, Tk("."), NL, NL>>>>)
    IN  IF w.err # "" THEN w
        ELSE [w EXCEPT !.indent_level = 0,
                       !.h_ops = Append(@, [op |-> "fb", tri |-> <<>>])]

\* Serializer::serialize, the arm of a new subject: finish_block()?; write_spo()?
new_block(ser, tri) ==
    LET fb == finish_block(ser)
    IN  IF fb.err # "" THEN fb ELSE write_spo(fb, tri)

\* Serializer::serialize, the match on last_tri for one triple of the source
NoTri == [some |-> FALSE, tri |-> <<>>]
serialize_match_predicate_first(ser, last_tri, tri) ==
    IF ~last_tri.some THEN write_spo(ser, tri)
    ELSE IF last_tri.tri[2] = tri[2] /\ last_tri.tri[1] = tri[1] THEN write_o(ser, tri)
    ELSE IF last_tri.tri[2] # tri[2] THEN write_po(ser, tri)
    ELSE new_block(ser, tri)
serialize_match(ser, last_tri, tri) ==
    IF ~last_tri.some THEN write_spo(ser, tri)
    ELSE IF last_tri.tri[1] # tri[1] THEN new_block(ser, tri)
    ELSE IF last_tri.tri[2] # tri[2] THEN write_po(ser, tri)
    ELSE write_o(ser, tri)

\* An item Err(e) of a triple source
SourceErr == <<"err">>

\* Serializer::serialize, the loop over the source: an item is pulled, an
\* Err item is returned as SourceError, a triple is written.
RECURSIVE serialize_loop(_, _, _)
serialize_loop(ser, last_tri, ts) ==
    IF ts = <<>> THEN ser
    ELSE LET pulled == [ser EXCEPT !.h_io = Append(@, [call |-> Len(ser.h_calls) + 1,
                                                       ev |-> "pull",
                                                       ok |-> Head(ts) # SourceErr,
                                                       tgt |-> ser.target])]
         IN  IF Head(ts) = SourceErr THEN [pulled EXCEPT !.err = "source"]
             ELSE LET w == serialize_match(pulled, last_tri, Head(ts))
                  IN  IF w.err # "" THEN w
                      ELSE serialize_loop(w, [some |-> TRUE, tri |-> Head(ts)], Tail(ts))

\* The return of a call, recorded in h_calls
returned(ser, fn) == [ser EXCEPT !.h_calls = Append(@, [fn |-> fn, err |-> ser.err])]

\* Serializer::serialize: last_tri is a local of the call
serialize(ser, ts) ==
    returned(serialize_loop([ser EXCEPT !.err = ""], NoTri, ts), "serialize")

\* Serializer::finish
finish(ser) == returned(finish_block([ser EXCEPT !.err = ""]), "finish")

\* ------------------------------------------------------------------ state
VARIABLES
    docSel,     \* the document: indices into Frags
    preset,     \* TRUE when the parser was made by Parser::with_base
    parser,     \* the Parser: ctx, current, end_or_failed
    results,    \* history: the item returned by every call of Parser::next
    extra,      \* calls of Parser::next made after the iterator ended
    reparsed,   \* the items of re-parsing the serialized triples
    ser,        \* the Serializer: target, config, indent_level
    serLog,     \* history: the source of every serialize call and what it wrote
    finished,   \* TRUE once Serializer::finish has consumed the serializer
    second,     \* a second parse session on the same document, and its items
    altRun,     \* one call of Parser::alt: its input, alternatives and outcome
    call        \* one call of a production or of Prolog::set_base on a context

vars == <<docSel, preset, parser, results, extra, reparsed, ser, serLog, finished,
          second, altRun, call>>
parserVars == <<docSel, preset, parser, results, extra, reparsed>>
serVars == <<ser, serLog, finished>>

\* The items of `results` that are triples, in order.
RECURSIVE TriplesOf(_)
TriplesOf(items) ==
    IF items = <<>> THEN <<>>
    ELSE IF Head(items).kind = "triple" THEN <<Head(items).tri>> \o TriplesOf(Tail(items))
    ELSE TriplesOf(Tail(items))
Yielded == TriplesOf(results)

\* The iterator has returned None or reported an error.
Ended == \E n \in 1..Len(results) : results[n].kind # "triple"
Failed == \E n \in 1..Len(results) : results[n].kind = "err"

DocSels == UNION {[1..n -> 1..NumFrags] : n \in 0..MaxFrags}
NotReparsed == [done |-> FALSE, out |-> <<>>, items |-> <<>>]
DefaultConfig == Config(NoBase, <<>>, Spaces(DEFAULT_SPACES))
NoSecond == [started |-> FALSE, p |-> ParserNew(<<>>), items |-> <<>>]
NoCall == [fn |-> "", i |-> <<>>, arg |-> <<>>, flag |-> FALSE, ctx |-> ContextDefault,
           done |-> FALSE, res |-> PErr(<<>>, "", ContextDefault)]
NoAltRun == [i |-> <<>>, ctx |-> ContextDefault, parsers |-> <<>>, done |-> FALSE,
             res |-> PErr(<<>>, "", ContextDefault), called |-> <<>>]

\* ------------------------------------------------------------------ parser actions
\* A parse session on a document: Parser::with_base or Parser::new.
Session(doc, pre) ==
    IF pre THEN ParserWithBase(doc, PresetBase) ELSE ParserNew(doc)

Init ==
    /\ docSel \in DocSels
    /\ preset \in BOOLEAN
    /\ results = <<>>
    /\ parser = Session(Doc(docSel), preset)
    /\ extra = 0
    /\ reparsed = NotReparsed
    /\ ser = SerializerNew(DefaultConfig, <<>>)
    /\ serLog = <<>>
    /\ finished = FALSE
    /\ second = NoSecond
    /\ altRun = NoAltRun
    /\ call = NoCall

\* One call of Parser::next by the consumer of the iterator.
CallNext ==
    /\ Ended => extra < MaxExtraCalls
    /\ \E r \in {next(parser)} :
           /\ parser' = r.p
           /\ results' = Append(results, [kind |-> r.item.kind, tri |-> r.item.tri,
                                          err |-> r.item.err,
                                          stmts |-> r.p.ctx.h_stmt])
    /\ extra' = IF Ended THEN extra + 1 ELSE extra
    /\ UNCHANGED <<docSel, preset, reparsed, serVars, second, altRun, call>>

\* The items a consumer gets from a parser: it stops at None or at an error.
RECURSIVE Collect(_, _)
CollectItem(r, acc) ==
    IF r.item.kind = "none" THEN acc
    ELSE IF r.item.kind = "err" THEN Append(acc, r.item)
    ELSE Collect(r.p, Append(acc, r.item))
Collect(p, acc) == CollectItem(next(p), acc)

\* A document that parsed is serialized with the prolog it declared (one
\* serialize call, then finish) and the output is parsed again.
RoundTrip ==
    /\ Ended /\ ~Failed /\ ~reparsed.done
    /\ LET prolog == parser.ctx.prolog
           config == Config(prolog.base, prolog.prefixes, Spaces(DEFAULT_SPACES))
           order == [n \in 1..Len(prolog.prefixes) |-> n]
       IN  \E out \in {finish(serialize(SerializerNew(config, order), Yielded)).target} :
               reparsed' = [done |-> TRUE, out |-> out,
                            items |-> Collect(ParserNew(out), <<>>)]
    /\ UNCHANGED <<docSel, preset, parser, results, extra, serVars, second, altRun, call>>

\* A second parser is constructed on the same document text with the same
\* pre-set base; it owns a Context of its own.
StartSecond_shared_counter ==
    /\ results # <<>>
    /\ ~second.started
    /\ second' = [started |-> TRUE,
                  p |-> [Session(Doc(docSel), preset) EXCEPT
                            !.ctx.bnode_cnt = parser.ctx.bnode_cnt],
                  items |-> <<>>]
    /\ UNCHANGED <<parserVars, serVars, altRun, call>>
StartSecond ==
    /\ results # <<>>
    /\ ~second.started
    /\ second' = [started |-> TRUE, p |-> Session(Doc(docSel), preset), items |-> <<>>]
    /\ UNCHANGED <<parserVars, serVars, altRun, call>>

\* One call of Parser::next on the second parser; it is called at most as
\* often as the first one was.
CallNextSecond ==
    /\ second.started
    /\ Len(second.items) < Len(results)
    /\ \E r \in {next(second.p)} :
           second' = [second EXCEPT
                         !.p = r.p,
                         !.items = Append(@, [kind |-> r.item.kind, tri |-> r.item.tri,
                                              err |-> r.item.err,
                                              stmts |-> r.p.ctx.h_stmt])]
    /\ UNCHANGED <<parserVars, serVars, altRun, call>>

Next == CallNext \/ RoundTrip \/ StartSecond \/ CallNextSecond

Spec == Init /\ [][Next]_vars

\* One session whose consumer keeps calling next: weak fairness of CallNext,
\* written with the guard of CallNext for ENABLED <<CallNext>>_vars (a call
\* always appends to results, so the two are equal).
CallNextEnabled == Ended => extra < MaxExtraCalls
NextLive == CallNext
SpecLive ==
    Init /\ [][NextLive]_vars /\ ([]<>(~CallNextEnabled) \/ []<><<CallNext>>_vars)

\* ------------------------------------------------------------------ serializer actions
ExIri(x) == Iri(<<"http://e", x>>)
SerTriples ==
    {<<ExIri("s1"), ExIri("p1"), ExIri("o")>>, <<ExIri("s1"), ExIri("p2"), ExIri("o")>>,
     <<ExIri("s2"), ExIri("p1"), ExIri("o")>>, <<BNode("b"), ExIri("p2"), ExIri("o")>>,
     <<ExIri("s1"), ExIri("p1"), LiteralDt("x", xsd_string)>>}
SerSources(max) == UNION {[1..n -> SerTriples] : n \in 0..max}

SerPrefixes == {<<>>, <<<<"ex", <<"http://e", "">>>>>>,
                <<<<"ex", <<"http://e", "">>>>, <<"rdf", RdfNs>>>>}
SerBases == {NoBase, StoredBase(<<"http://a", "b", "">>)}
SerConfigs ==
    {Config(b, pf, ind) : b \in SerBases, pf \in SerPrefixes,
                          ind \in {Spaces(DEFAULT_SPACES), IndentNone}}
Orders(n) == {o \in [1..n -> 1..n] : \A a, b \in 1..n : a # b => o[a] # o[b]}

\* The state after Serializer::new(target, config) on an empty target.
InitSer ==
    /\ docSel = <<>>
    /\ preset = FALSE
    /\ parser = ParserNew(<<>>)
    /\ results = <<>>
    /\ extra = 0
    /\ reparsed = NotReparsed
    /\ \E config \in SerConfigs : \E order \in Orders(Len(config.prefixes)) :
          ser = SerializerNew(config, order)
    /\ serLog = <<>>
    /\ finished = FALSE
    /\ second = NoSecond
    /\ altRun = NoAltRun
    /\ call = NoCall

RECURSIVE TriplesHanded(_)
TriplesHanded(log) ==
    IF log = <<>> THEN 0 ELSE Len(Head(log).ts) + TriplesHanded(Tail(log))

\* The call ser.serialize(ts)
SerializeCall(ts) ==
    /\ ser' = serialize(ser, ts)
    /\ serLog' = Append(serLog, [ts |-> ts, ops0 |-> Len(ser.h_ops),
                                 ops1 |-> Len(serialize(ser, ts).h_ops),
                                 tgt0 |-> Len(ser.target),
                                 tgt1 |-> Len(serialize(ser, ts).target)])

\* One call of Serializer::serialize with a source that yields ts.
Serialize ==
    /\ ~finished
    /\ Len(serLog) < MaxSerCalls
    /\ \E ts \in SerSources(MaxTriples - TriplesHanded(serLog)) : SerializeCall(ts)
    /\ UNCHANGED <<parserVars, finished, second, altRun, call>>

\* Serializer::finish
Finish ==
    /\ ~finished
    /\ ser' = finish(ser)
    /\ finished' = TRUE
    /\ UNCHANGED <<parserVars, serLog, second, altRun, call>>

NextSer == Serialize \/ Finish

SpecSer == InitSer /\ [][NextSer]_vars

\* ------------------------------------------------------------------ failing sink and source
\* Sources whose items are triples or Err(e).
SinkSources(max) == UNION {[1..n -> SerTriples \cup {SourceErr}] : n \in 0..max}
SinkConfigs == {DefaultConfig, Config(NoBase, <<>>, IndentNone)}

\* The state after Serializer::new on a target that takes 0..MaxRoom more
\* writes.
InitSink ==
    /\ docSel = <<>>
    /\ preset = FALSE
    /\ parser = ParserNew(<<>>)
    /\ results = <<>>
    /\ extra = 0
    /\ reparsed = NotReparsed
    /\ \E config \in SinkConfigs : \E room \in 0..MaxRoom :
          ser = [SerializerNew(config, <<>>) EXCEPT !.sink = Limit(room)]
    /\ serLog = <<>>
    /\ finished = FALSE
    /\ second = NoSecond
    /\ altRun = NoAltRun
    /\ call = NoCall

\* One call of Serializer::serialize with a source that may yield an error.
SerializeSink ==
    /\ ~finished
    /\ Len(serLog) < MaxSerCalls
    /\ \E ts \in SinkSources(MaxTriples - TriplesHanded(serLog)) : SerializeCall(ts)
    /\ UNCHANGED <<parserVars, finished, second, altRun, call>>

NextSink == SerializeSink \/ Finish

SpecSink == InitSink /\ [][NextSink]_vars

\* ------------------------------------------------------------------ Parser::alt actions
AltInputs ==
    {<<Rel("s"), WS>>, <<PnLn("ex", "s"), WS>>, <<PnLn("un", "s"), WS>>, <<PnNs("ex")>>,
     <<PnNs("un"), WS>>, <<Str("x")>>, <<>>}
AltContexts ==
    {ContextDefault,
     [ContextDefault EXCEPT !.prolog = add_prefix(@, "ex", <<"http://e", "">>)],
     [ContextDefault EXCEPT !.prolog = set_base(add_prefix(@, "ex", <<"", "f", "">>),
                                                PresetBase, FALSE).prolog]}
AltParsers == UNION {[1..n -> {"iriref", "prefixed_name"}] : n \in 0..MaxAlts}

\* A parser with some prolog is about to call Parser::alt on some input.
InitAlt ==
    /\ docSel = <<>>
    /\ preset = FALSE
    /\ parser = ParserNew(<<>>)
    /\ results = <<>>
    /\ extra = 0
    /\ reparsed = NotReparsed
    /\ ser = SerializerNew(DefaultConfig, <<>>)
    /\ serLog = <<>>
    /\ finished = FALSE
    /\ second = NoSecond
    /\ \E i \in AltInputs : \E ctx \in AltContexts : \E ps \in AltParsers :
          altRun = [NoAltRun EXCEPT !.i = i, !.ctx = ctx, !.parsers = ps]
    /\ call = NoCall

\* The call self.alt(i, parsers)
CallAlt ==
    /\ ~altRun.done
    /\ \E r \in {ParserAlt(altRun.i, altRun.ctx, altRun.parsers, <<>>)} :
          altRun' = [altRun EXCEPT !.done = TRUE, !.res = r.res, !.called = r.called]
    /\ UNCHANGED <<parserVars, serVars, second, call>>

\* The call self.iri(i), which is self.alt(i, &[iriref, prefixed_name])
CallIri ==
    /\ ~altRun.done
    /\ altRun.parsers = <<"iriref", "prefixed_name">>
    /\ \E r \in {ParserIri(altRun.i, altRun.ctx)} :
          altRun' = [altRun EXCEPT !.done = TRUE, !.res = r.res, !.called = r.called]
    /\ UNCHANGED <<parserVars, serVars, second, call>>

NextAlt == CallAlt \/ CallIri

SpecAlt == InitAlt /\ [][NextAlt]_vars

\* ------------------------------------------------------------------ single calls
\* The contexts a production is called with: with and without a base and a
\* prefix, with blank nodes already made and triples already pending.
CallPrologs ==
    {PrologDefault,
     set_base(PrologDefault, PresetBase, FALSE).prolog,
     add_prefix(set_base(PrologDefault, PresetBase, FALSE).prolog, "ex", <<"", "f", "">>)}
CallQueues == {<<>>, <<<<Iri(<<"", "s">>), rdf_type, rdf_nil>>>>}
CallContexts ==
    {[ContextDefault EXCEPT !.prolog = pl, !.bnode_cnt = n, !.triple_stack = q] :
        pl \in CallPrologs, n \in {0, 2}, q \in CallQueues}

\* `()`, `( )`, `(` newline `)`, each followed by ` .`, and two collections
\* that are not empty.
CollectionInputs ==
    {<<Tk("("), Tk(")")>> \o DOT,
     <<Tk("("), WS, Tk(")")>> \o DOT,
     <<Tk("("), NL, WS, Tk(")"), WS, Rel("o")>>,
     <<Tk("("), WS, Num("1"), WS, Tk(")")>> \o DOT,
     <<Tk("("), Tk("("), Tk(")"), Tk(")")>> \o DOT}

\* Candidates for a base: absolute and relative IRIs; `flag` of the call is
\* Iri::has_suffix of the candidate.
BaseCandidates ==
    {<<"http://a", "b", "">>, <<"http://g", "">>, <<"", "c", "">>, <<"", "..", "d", "">>}

\* Numbers: an optional sign, then 1, 12, 1.5, .5, 1e3, 1.5e3, 1.E-2 or
\* .5e3, each followed by ` .`.
NumericForms ==
    {<<Num("1")>>, <<Num("12")>>, <<Num("1"), Tk("."), Num("5")>>, <<Tk("."), Num("5")>>,
     <<Num("1"), Exp("e3")>>, <<Num("1"), Tk("."), Num("5"), Exp("e3")>>,
     <<Num("1"), Tk("."), Exp("E-2")>>, <<Tk("."), Num("5"), Exp("e3")>>}
NumericInputs ==
    {sg \o f \o DOT : sg \in {<<>>, <<Sign("-")>>, <<Sign("+")>>}, f \in NumericForms}

InitCall ==
    /\ docSel = <<>>
    /\ preset = FALSE
    /\ parser = ParserNew(<<>>)
    /\ results = <<>>
    /\ extra = 0
    /\ reparsed = NotReparsed
    /\ ser = SerializerNew(DefaultConfig, <<>>)
    /\ serLog = <<>>
    /\ finished = FALSE
    /\ second = NoSecond
    /\ altRun = NoAltRun
    /\ \E ctx \in CallContexts :
          \/ \E i \in CollectionInputs :
                call = [NoCall EXCEPT !.fn = "collection", !.i = i, !.ctx = ctx]
          \/ \E i \in NumericInputs :
                call = [NoCall EXCEPT !.fn = "numeric_literal", !.i = i, !.ctx = ctx]
          \/ \E b \in BaseCandidates : \E suffixed \in BOOLEAN :
                call = [NoCall EXCEPT !.fn = "set_base", !.arg = b, !.flag = suffixed,
                                      !.ctx = ctx]

\* The call collection(i, ctx)
CallCollection ==
    /\ ~call.done
    /\ call.fn = "collection"
    /\ \E r \in {collection(call.i, call.ctx)} :
          call' = [call EXCEPT !.done = TRUE, !.res = r]
    /\ UNCHANGED <<parserVars, serVars, second, altRun>>

\* The call ctx.prolog.set_base(base)
CallSetBase ==
    /\ ~call.done
    /\ call.fn = "set_base"
    /\ \E r \in {set_base(call.ctx.prolog, call.arg, call.flag)} :
          call' = [call EXCEPT
                      !.done = TRUE,
                      !.res = IF r.ok
                              THEN POk(<<>>, <<>>, [call.ctx EXCEPT !.prolog = r.prolog])
                              ELSE PErr(<<>>, "InvalidIri",
                                        [call.ctx EXCEPT !.prolog = r.prolog])]
    /\ UNCHANGED <<parserVars, serVars, second, altRun>>

\* The call numeric_literal(i, ctx)
CallNumericLiteral ==
    /\ ~call.done
    /\ call.fn = "numeric_literal"
    /\ \E r \in {numeric_literal(call.i, call.ctx)} :
          call' = [call EXCEPT !.done = TRUE, !.res = r]
    /\ UNCHANGED <<parserVars, serVars, second, altRun>>

NextCall == CallCollection \/ CallSetBase \/ CallNumericLiteral

SpecCall == InitCall /\ [][NextCall]_vars

\* ------------------------------------------------------------------ properties
Last(q) == q[Len(q)]
PushedTriples == [n \in 1..Len(parser.ctx.h_push) |-> parser.ctx.h_push[n].tri]

\* C1: once Parser::next has returned None or has reported an error, every
\* later call returns None (no triple, no second error) and the statement
\* production is not called again (the count of its calls stays the same).
C1_EndIsLatched ==
    \A i, j \in 1..Len(results) :
        (i < j /\ results[i].kind # "triple")
            => (results[j].kind = "none" /\ results[j].stmts = results[i].stmts)

\* C1 witness: a statement failed with triples still pending, and two more
\* calls were made.
C1_Witness ==
    /\ Failed
    /\ extra = MaxExtraCalls
    /\ parser.ctx.triple_stack # <<>>
    /\ Last(results).kind = "none"

\* C2: the triples yielded so far followed by the pending queue are exactly
\* the triples pushed so far, in push order (FIFO, none lost, none doubled);
\* a triple is yielded while the statement that pushed it is the last one
\* parsed, so every triple of statement k comes before any of statement k+1.
C2_FifoPerStatement ==
    /\ Yielded \o parser.ctx.triple_stack = PushedTriples
    /\ \A n \in 1..Len(results) :
          results[n].kind = "triple"
              => LET m == Len(TriplesOf(SubSeq(results, 1, n)))
                 IN  /\ m <= Len(parser.ctx.h_push)
                     /\ parser.ctx.h_push[m].stmt = results[n].stmts
                     /\ parser.ctx.h_push[m].tri = results[n].tri

\* C2 witness: two statements were parsed, one with a collection, and all
\* their triples were yielded.
C2_Witness ==
    /\ parser.ctx.h_stmt = 2
    /\ parser.ctx.h_coll # <<>>
    /\ Ended /\ ~Failed
    /\ Len(Yielded) > 7
    /\ \E n \in 1..Len(parser.ctx.h_push) : parser.ctx.h_push[n].stmt = 1

\* C3: a collection of n >= 1 elements takes n counter values cnt0..cnt0+n-1
\* and pushes exactly 2n triples, cell i first/rest in turn, the last rest
\* being rdf:nil, and its value is the first cell; `<s> <p> ( 1 2 3 ) .`
\* yields 7 triples.
C3_Cell(c, i) == BNode(AnonLabel(c.cnt0 + i))
C3_CollectionDesugared ==
    /\ \A k \in 1..Len(parser.ctx.h_coll) :
          LET c == parser.ctx.h_coll[k]
          IN  /\ c.n >= 1
              /\ c.cnt1 = c.cnt0 + c.n
              /\ c.to = c.at + 2 * c.n
              /\ c.value = C3_Cell(c, 0)
              /\ \A i \in 0..(c.n - 1) :
                    /\ parser.ctx.h_push[c.at + 2 * i + 1].tri
                          = <<C3_Cell(c, i), rdf_first, c.elems[i + 1]>>
                    /\ parser.ctx.h_push[c.at + 2 * i + 2].tri
                          = <<C3_Cell(c, i), rdf_rest,
                              IF i = c.n - 1 THEN rdf_nil ELSE C3_Cell(c, i + 1)>>
              /\ \A i, j \in 0..(c.n - 1) : i < j => C3_Cell(c, i) # C3_Cell(c, j)
    /\ (docSel = <<3>> /\ Ended) => (~Failed /\ Len(Yielded) = 7)

\* C3 witness: `<s> <p> ( 1 2 3 ) .` was parsed and its 7 triples yielded.
C3_Witness ==
    /\ docSel = <<3>>
    /\ Ended
    /\ Len(Yielded) = 7
    /\ parser.ctx.h_coll[1].n = 3

\* C4: a base set while a base B1 is stored is stored resolved against B1,
\* and later references resolve against the stored result: after
\* `@base <http://a/b/> .` and `@base <c/> .`, `<d>` is http://a/b/c/d.
C4_BaseCumulative ==
    /\ \A k \in 1..Len(parser.ctx.h_base) :
          LET b == parser.ctx.h_base[k]
          IN  /\ b.new.set
              /\ b.old.set => b.new.iri = IriResolve(b.old.iri, b.arg)
              /\ k = Len(parser.ctx.h_base) => parser.ctx.prolog.base = b.new
    /\ (docSel = <<8, 9>> /\ ~preset /\ Yielded # <<>>)
          => Yielded[1][1] = Iri(<<"http://a", "b", "c", "d">>)

\* C4 witness: the two base directives and `<d>` were parsed.
C4_Witness ==
    /\ docSel = <<8, 9>>
    /\ ~preset
    /\ Len(parser.ctx.h_base) = 2
    /\ Len(Yielded) = 1

\* C5: a statement in which a prefixed name with an undeclared prefix was
\* looked up fails with an InvalidPrefix error that names the prefix, and
\* yields no triple.
C5_UnknownPrefixIsInvalidPrefix ==
    \A k \in 1..Len(parser.ctx.h_done) :
        LET d == parser.ctx.h_done[k]
        IN  d.miss # {} =>
               /\ ~d.ok
               /\ d.err.variant = "InvalidPrefix"
               /\ d.err.arg \in d.miss
               /\ \A n \in 1..Len(results) :
                     results[n].kind = "triple" => results[n].stmts # k

\* C6: the triples of re-parsing the serialized output are, as a multiset,
\* the triples the document yielded.
C6_Count(t, q) == Cardinality({n \in 1..Len(q) : q[n] = t})
C6_RoundTripKeepsTriples ==
    reparsed.done =>
        LET again == TriplesOf(reparsed.items)
        IN  /\ \A n \in 1..Len(reparsed.items) : reparsed.items[n].kind = "triple"
            /\ Len(again) = Len(Yielded)
            /\ \A n \in 1..Len(Yielded) :
                  C6_Count(Yielded[n], again) = C6_Count(Yielded[n], Yielded)

\* C7: within one serialize call the first triple is written whole and every
\* later triple by comparison with its predecessor only: other subject, the
\* block terminator and the whole triple; same subject and other predicate,
\* ` ;` and predicate and object; both equal, `,` and the object.  The
\* triples are written in source order, and the blocks written are the
\* maximal runs of triples with equal subject.  The text is compared without
\* its spaces and indentation.
C7_Op(op, tri) == [op |-> op, tri |-> tri]
C7_OpsFor(lt, t) ==
    IF lt[1] # t[1] THEN <<C7_Op("fb", <<>>), C7_Op("spo", t)>>
    ELSE IF lt[2] # t[2] THEN <<C7_Op("po", t)>>
    ELSE <<C7_Op("o", t)>>
RECURSIVE C7_Ops(_, _)
C7_Ops(ts, n) ==
    IF n = 0 THEN <<>>
    ELSE IF n = 1 THEN <<C7_Op("spo", ts[1])>>
    ELSE C7_Ops(ts, n - 1) \o C7_OpsFor(ts[n - 1], ts[n])
C7_Terms(o) ==
    IF o.op = "fb" THEN <<Tk("."), NL, NL>>
    ELSE IF o.op = "spo"
         THEN term_serialize(o.tri[1]) \o term_serialize(o.tri[2]) \o term_serialize(o.tri[3])
    ELSE IF o.op = "po"
         THEN <<Tk(";"), NL>> \o term_serialize(o.tri[2]) \o term_serialize(o.tri[3])
    ELSE <<Tk(",")>> \o term_serialize(o.tri[3])
RECURSIVE C7_Text(_)
C7_Text(ops) == IF ops = <<>> THEN <<>> ELSE C7_Terms(Head(ops)) \o C7_Text(Tail(ops))
C7_NotSpace(tok) == tok.t # "ws" \/ tok = NL
C7_Runs(ts) ==
    IF ts = <<>> THEN 0
    ELSE 1 + Cardinality({n \in 2..Len(ts) : ts[n][1] # ts[n - 1][1]})
C7_GroupedByPredecessor ==
    \A k \in 1..Len(serLog) :
        LET c == serLog[k]
            ops == SubSeq(ser.h_ops, c.ops0 + 1, c.ops1)
            text == SubSeq(ser.target, c.tgt0 + 1, c.tgt1)
        IN  /\ ops = C7_Ops(c.ts, Len(c.ts))
            /\ SelectSeq(text, C7_NotSpace) = C7_Text(ops)
            /\ Cardinality({n \in 1..Len(ops) : ops[n].op = "spo"}) = C7_Runs(c.ts)

\* C7 witness: one call wrote three triples, a new predicate of the same
\* subject and then a new subject.
C7_Witness ==
    \E k \in 1..Len(serLog) :
        /\ Len(serLog[k].ts) = 3
        /\ serLog[k].ts[1][1] = serLog[k].ts[2][1]
        /\ serLog[k].ts[1][2] # serLog[k].ts[2][2]
        /\ serLog[k].ts[2][1] # serLog[k].ts[3][1]

\* C8: once finish has returned after at least one triple was serialized,
\* every block of the output is terminated exactly once: each whole triple
\* written (the start of a block) is followed by one block terminator before
\* the next block starts or the output ends.
C8_IsOp(n, op) == n \in 1..Len(ser.h_ops) /\ ser.h_ops[n].op = op
C8_EveryBlockTerminatedOnce ==
    (finished /\ \E n \in 1..Len(ser.h_ops) : ser.h_ops[n].op # "fb") =>
        /\ Last(ser.h_ops).op = "fb"
        /\ \A n \in 1..Len(ser.h_ops) :
              C8_IsOp(n, "spo") =>
                 \E m \in (n + 1)..Len(ser.h_ops) :
                    /\ C8_IsOp(m, "fb")
                    /\ \A j \in (n + 1)..(m - 1) : ~C8_IsOp(j, "spo") /\ ~C8_IsOp(j, "fb")
                    /\ (m = Len(ser.h_ops) \/ C8_IsOp(m + 1, "spo"))

\* C9: the target starts with the preamble: one @prefix line per declared
\* prefix (in some order), then the @base line iff a base is set, then a
\* blank line iff one of those lines was written; nothing else precedes
\* the first triple, and nothing is written for an empty prolog.
C9_Preamble(config, order) ==
    LET lines == PrefixLines(config.prefixes, order)
                 \o (IF config.base.set THEN BaseLine(config.base.iri) ELSE <<>>)
    IN  IF lines = <<>> THEN <<>> ELSE lines \o <<NL>>
C9_PreambleFirst ==
    \E order \in Orders(Len(ser.config.prefixes)) :
        LET pre == C9_Preamble(ser.config, order)
        IN  /\ Len(ser.target) >= Len(pre)
            /\ SubSeq(ser.target, 1, Len(pre)) = pre
            /\ ser.h_ops = <<>> => ser.target = pre
            /\ (ser.h_ops # <<>> /\ ser.h_ops[1].op = "spo")
                  => ser.target[Len(pre) + 1] = term_serialize(ser.h_ops[1].tri[1])[1]
            /\ (ser.config.prefixes = <<>> /\ ~ser.config.base.set) => pre = <<>>

\* C9 witness: two prefixes and a base were declared and a triple was written.
C9_Witness ==
    /\ Len(ser.config.prefixes) = 2
    /\ ser.config.base.set
    /\ ser.h_ops # <<>>

\* C10: a statement that is not a directive never succeeds with zero
\* triples (an empty predicate-object list or an empty object list).
C10_NoEmptyStatement ==
    \A k \in 1..Len(parser.ctx.h_done) :
        (parser.ctx.h_done[k].ok /\ parser.ctx.h_done[k].some)
            => parser.ctx.h_done[k].n >= 1

\* C11: a subject with po-lists of n1..nk objects expands to exactly
\* n1+...+nk triples, duplicates kept: the triple at position
\* n1+...+n(j-1)+m is [subject, predicate j, object m of predicate j].
RECURSIVE C11_Before(_, _)
C11_Before(pols, j) ==
    IF j <= 1 THEN 0 ELSE C11_Before(pols, j - 1) + Len(pols[j - 1].objects)
C11_SpoListExpansion ==
    \A k \in 1..Len(parser.ctx.h_spo) :
        LET e == parser.ctx.h_spo[k]
            pols == e.spo.po_lists
        IN  /\ e.to - e.at = C11_Before(pols, Len(pols) + 1)
            /\ \A j \in 1..Len(pols) : \A m \in 1..Len(pols[j].objects) :
                   parser.ctx.h_push[e.at + C11_Before(pols, j) + m].tri
                       = <<e.spo.subject, pols[j].predicate, pols[j].objects[m]>>

\* C11 witness: `<s> <p> <o> , <o> ; <p> <o> , _:b .` was expanded to four
\* triples, three of them equal, and all four were yielded.
C11_Witness ==
    /\ docSel = <<19>>
    /\ Len(parser.ctx.h_spo) = 1
    /\ Len(parser.ctx.h_spo[1].spo.po_lists) = 2
    /\ Len(Yielded) = 4
    /\ Yielded[1] = Yielded[2] /\ Yielded[2] = Yielded[3]

\* C12: making a labeled blank node wraps the label unchanged and leaves the
\* counter as it was, so that the n-th anonymous blank node of a session is
\* `anon` + (n - 1) whatever labeled blank nodes the document contains.
C12_AnonBefore(k) ==
    Cardinality({j \in 1..(k - 1) : parser.ctx.h_mint[j].kind = "anon"})
C12_LabeledKeepsCounter ==
    \A k \in 1..Len(parser.ctx.h_mint) :
        LET e == parser.ctx.h_mint[k]
        IN  /\ e.kind = "labeled" => (e.term = BNode(e.label) /\ e.cnt1 = e.cnt0)
            /\ e.kind = "anon" => e.term = BNode(AnonLabel(C12_AnonBefore(k)))

\* C13: the counter never decreases, every anonymous blank node is `anon` +
\* the counter value at the call, the call adds one to the counter, and no
\* two anonymous blank nodes of a session got the same counter value or
\* label; this holds with the mints of failed and abandoned alternatives.
C13_CounterMonotonic ==
    LET h == parser.ctx.h_mint
    IN  /\ \A k \in 1..Len(h) :
               /\ h[k].cnt1 >= h[k].cnt0
               /\ k < Len(h) => h[k + 1].cnt0 >= h[k].cnt1
               /\ parser.ctx.bnode_cnt >= h[k].cnt1
               /\ h[k].kind = "anon" =>
                      (h[k].term = BNode(AnonLabel(h[k].cnt0)) /\ h[k].cnt1 = h[k].cnt0 + 1)
        /\ \A j, k \in 1..Len(h) :
               (j < k /\ h[j].kind = "anon" /\ h[k].kind = "anon")
                   => (h[j].cnt0 # h[k].cnt0 /\ h[j].term # h[k].term)

\* C13 witness: in `[]<p> [] .` the first alternative of triples made anon0
\* and was abandoned; the statement then made anon1 and anon2 and its triple
\* was yielded.
C13_Witness ==
    /\ docSel = <<20>>
    /\ Len(parser.ctx.h_mint) = 3
    /\ Len(Yielded) = 1
    /\ Yielded[1][1] = BNode("anon2")
    /\ Yielded[1][3] = BNode("anon1")

\* C14: Parser::alt invokes its alternatives in order and stops at the
\* first that does not soft-mismatch: a hard failure is returned as it is
\* and nothing is invoked after it, a success likewise; when every
\* alternative soft-mismatches the result is a soft NoMatch error at the
\* input the call was given.
C14_HardFailureStopsAlt ==
    altRun.done =>
        LET c == altRun.called
            n == Len(c)
            soft(k) == ~c[k].ok /\ ~c[k].hard
        IN  /\ n <= Len(altRun.parsers)
            /\ \A k \in 1..n : c[k].name = altRun.parsers[k]
            /\ \A k \in 1..n : k < n => soft(k)
            /\ \A k \in 1..n : c[k].hard =>
                   /\ k = n
                   /\ altRun.res.hard /\ ~altRun.res.ok /\ altRun.res.kind = c[k].kind
            /\ (n < Len(altRun.parsers)) => ~soft(n)
            /\ (n > 0 /\ ~soft(n)) =>
                   (altRun.res.ok = c[n].ok /\ altRun.res.hard = c[n].hard)
            /\ (n = Len(altRun.parsers) /\ (n = 0 \/ soft(n))) =>
                   /\ ~altRun.res.ok /\ ~altRun.res.hard
                   /\ altRun.res.kind = "NoMatch"
                   /\ altRun.res.rest = altRun.i

\* C14 witness: alt was called with iriref, prefixed_name and a third
\* alternative on a name with an undeclared prefix; iriref soft-mismatched,
\* prefixed_name failed hard with InvalidPrefix, that was the result and the
\* third alternative was not invoked.
C14_Witness ==
    /\ altRun.done
    /\ Len(altRun.parsers) = 3
    /\ altRun.parsers[1] = "iriref" /\ altRun.parsers[2] = "prefixed_name"
    /\ Len(altRun.called) = 2
    /\ altRun.res.hard /\ altRun.res.kind = "InvalidPrefix"
    /\ altRun.res.val = <<"un">>

\* C15: a failed write or an Err item of the source ends the call: nothing
\* is written or pulled after it in that call, the call returns that error
\* (and returns an error only then), and what was written stays: the target
\* only grows and a failed write leaves it as it was.
C15_IsPrefix(a, b) == Len(a) <= Len(b) /\ SubSeq(b, 1, Len(a)) = a
C15_ErrorAbortsCall ==
    LET io == ser.h_io
    IN  /\ \A k \in 1..Len(io) :
               /\ io[k].call \in 1..Len(ser.h_calls)
               /\ ~io[k].ok =>
                      /\ \A j \in 1..Len(io) : j > k => io[j].call # io[k].call
                      /\ ser.h_calls[io[k].call].err
                             = (IF io[k].ev = "write" THEN "sink" ELSE "source")
               /\ k > 1 => C15_IsPrefix(io[k - 1].tgt, io[k].tgt)
               /\ (k > 1 /\ ~io[k].ok) => io[k].tgt = io[k - 1].tgt
        /\ \A c \in 1..Len(ser.h_calls) :
               ser.h_calls[c].err # "" => \E k \in 1..Len(io) : io[k].call = c /\ ~io[k].ok
        /\ io # <<>> => ser.target = Last(io).tgt

\* C15 witness: a serialize call of three triples wrote the first, failed on
\* a write of the second and never pulled the third.
C15_Witness ==
    \E c \in 1..Len(serLog) :
        /\ Len(serLog[c].ts) = 3
        /\ ser.h_calls[c].err = "sink"
        /\ Cardinality({k \in 1..Len(ser.h_io) :
                           ser.h_io[k].call = c /\ ser.h_io[k].ev = "pull"}) = 2
        /\ serLog[c].tgt1 > serLog[c].tgt0

\* C16: once the iterator has returned None the pending queue is empty and
\* every triple pushed during the session was yielded.
C16_QueueDrainedAtEnd ==
    (\E n \in 1..Len(results) : results[n].kind = "none") =>
        /\ parser.ctx.triple_stack = <<>>
        /\ Yielded = PushedTriples

\* C17: the items of a session hold at most one error; a statement that
\* fails is reported by an error item of the call that parsed it, the flag
\* end_or_failed is set when that call returns, and every item after the
\* error is None.
C17_ErrorOnceAndLast ==
    /\ Cardinality({n \in 1..Len(results) : results[n].kind = "err"}) <= 1
    /\ \A n \in 1..Len(results) :
          results[n].kind = "err" =>
              /\ parser.end_or_failed
              /\ \A m \in 1..Len(results) : m > n => results[m].kind = "none"
              /\ ~parser.ctx.h_done[results[n].stmts].ok
              /\ results[n].err = parser.ctx.h_done[results[n].stmts].err
    /\ \A k \in 1..Len(parser.ctx.h_done) :
          ~parser.ctx.h_done[k].ok =>
              \E n \in 1..Len(results) : results[n].kind = "err" /\ results[n].stmts = k

\* C17 witness: a triple was yielded, the second statement failed, its error
\* was returned and a later call returned None.
C17_Witness ==
    /\ Len(results) >= 3
    /\ results[1].kind = "triple"
    /\ results[2].kind = "err"
    /\ results[3].kind = "none"
    /\ parser.ctx.h_stmt = 2

\* C18: for a document without a statement (empty, or white space and
\* comments only) the first call of next returns None, no triple and no
\* error is yielded and the statement production is never called.
C18_NoStatement == \A n \in 1..Len(Doc(docSel)) : Doc(docSel)[n].t = "ws"
C21_IsEmptyCollection ==
    /\ call.fn = "collection"
    /\ Tok(call.i) = "("
    /\ Tok(multispace0(Tail(call.i))) = ")"
C21_EmptyCollectionIsNil ==
    (call.done /\ C21_IsEmptyCollection) =>
        /\ call.res.ok
        /\ call.res.val = rdf_nil
        /\ call.res.rest = Tail(multispace0(Tail(call.i)))
        /\ call.res.ctx.triple_stack = call.ctx.triple_stack
        /\ call.res.ctx.bnode_cnt = call.ctx.bnode_cnt
        /\ call.res.ctx.h_push = call.ctx.h_push
        /\ call.res.ctx.h_mint = call.ctx.h_mint

\* C21 witness: `( )` was parsed in a context with two blank nodes made and a
\* triple pending.
C21_Witness ==
    /\ call.done
    /\ C21_IsEmptyCollection
    /\ Tok(Tail(call.i)) = "ws"
    /\ call.ctx.bnode_cnt = 2
    /\ call.ctx.triple_stack # <<>>
    /\ call.res.val = rdf_nil

\* C22: a prefixed name expands with the namespace of the most recent
\* prefix directive for its name that precedes it in the document, the prefix
\* table holds one binding per name, the one of the last directive, and the
\* triples already yielded are those of the expansions made at their time.
C22_LastAdd(n) ==
    LET h == parser.ctx.h_pfx
        adds == {m \in 1..(n - 1) : h[m].ev = "add" /\ h[m].name = h[n].name}
    IN  IF adds = {} THEN 0 ELSE CHOOSE m \in adds : \A k \in adds : k <= m
C22_PrefixAtPointOfUse ==
    LET h == parser.ctx.h_pfx
        pl == parser.ctx.prolog
    IN  /\ \A n \in 1..Len(h) :
              h[n].ev = "use" =>
                  /\ C22_LastAdd(n) # 0
                  /\ h[n].iri = IF h[n].local = <<>> THEN h[C22_LastAdd(n)].iri
                                ELSE NsGet(h[C22_LastAdd(n)].iri, h[n].local[1])
        /\ \A a, b \in 1..Len(pl.prefixes) : pl.prefixes[a][1] = pl.prefixes[b][1] => a = b
        /\ \A a \in 1..Len(pl.prefixes) :
              \E n \in 1..Len(h) :
                  /\ h[n].ev = "add" /\ h[n].name = pl.prefixes[a][1]
                  /\ h[n].iri = pl.prefixes[a][2]
                  /\ \A m \in (n + 1)..Len(h) :
                        ~(h[m].ev = "add" /\ h[m].name = h[n].name)
        /\ \A n \in 1..Len(h) :
              (h[n].ev = "add" /\ \A m \in (n + 1)..Len(h) :
                                     ~(h[m].ev = "add" /\ h[m].name = h[n].name))
                  => /\ HasPrefix(pl, h[n].name)
                     /\ GetPrefix(pl, h[n].name) = h[n].iri
        /\ (docSel = <<10, 22>> /\ Len(Yielded) >= 1)
              => Yielded[1] = <<Iri(<<"http://e", "s">>), Iri(<<"http://e", "p">>),
                                Iri(<<"http://e", "">>)>>

\* C22 witness: `ex:` was bound to http://e/, used, bound again to
\* http://n/ and used again: the two triples differ in their namespace.
C22_Witness ==
    /\ docSel = <<10, 22>>
    /\ ~preset
    /\ Len(Yielded) = 2
    /\ Yielded[1][1] = Iri(<<"http://e", "s">>)
    /\ Yielded[2][1] = Iri(<<"http://n", "s">>)
    /\ GetPrefix(parser.ctx.prolog, "ex") = <<"http://n", "">>

RECURSIVE C24_Token(_)
C24_Token(i) == IF Tok(i) \in {"ws", "eof"} THEN <<>> ELSE <<Head(i)>> \o C24_Token(Tail(i))
RECURSIVE C24_Text(_)
C24_Text(tk) ==
    IF tk = <<>> THEN ""
    ELSE (IF Head(tk).t = "." THEN "." ELSE Head(tk).v[1]) \o C24_Text(Tail(tk))
C24_Datatype(tk) ==
    IF \E n \in 1..Len(tk) : tk[n].t = "exp" THEN xsd_double
    ELSE IF \E n \in 1..Len(tk) : tk[n].t = "." THEN xsd_decimal
    ELSE xsd_integer
C24_NumericWholeToken ==
    (call.done /\ call.fn = "numeric_literal") =>
        LET tk == C24_Token(call.i)
        IN  /\ call.res.ok
            /\ call.res.rest = SubSeq(call.i, Len(tk) + 1, Len(call.i))
            /\ call.res.val = LiteralDt(C24_Text(tk), C24_Datatype(tk))

\* C25: on one Serializer, over all its serialize calls, a subject written
\* after an earlier triple comes directly after a block terminator, and the
\* indentation level is 1 while a block is open and 0 otherwise.
C25_BlockOpen == ser.h_ops # <<>> /\ Last(ser.h_ops).op # "fb"
C25_GroupingCarriesOver ==
    /\ \A n \in 2..Len(ser.h_ops) :
          ser.h_ops[n].op = "spo" => ser.h_ops[n - 1].op = "fb"
    /\ ser.indent_level = IF C25_BlockOpen THEN 1 ELSE 0

\* C26: when finish is called on a serializer to which no triple was ever
\* serialized, nothing is written after the preamble: no block terminator.
C26_NoTerminatorWithoutBlock ==
    (finished /\ \A k \in 1..Len(serLog) : serLog[k].ts = <<>>) =>
        /\ ser.h_ops = <<>>
        /\ \E order \in Orders(Len(ser.config.prefixes)) :
              ser.target = C9_Preamble(ser.config, order)

\* C27: within one session no anonymous blank node gets the label of a
\* labeled blank node of the document: the term made for an anonymous node
\* differs from the term of every labeled node.
C27_AnonLabelsAreFresh ==
    \A a, b \in 1..Len(parser.ctx.h_mint) :
        (parser.ctx.h_mint[a].kind = "anon" /\ parser.ctx.h_mint[b].kind = "labeled")
            => parser.ctx.h_mint[a].term # parser.ctx.h_mint[b].term

\* C28: the input left is always a suffix of the document; a call of next
\* never makes it longer and shortens it by at least one token for every
\* statement that parsed; the pending queue changes by the triples pushed
\* during the call, less one when the call returns a triple; and a consumer
\* that keeps calling next eventually gets None.
C28_IsSuffix(a, b) ==
    Len(a) <= Len(b) /\ a = SubSeq(b, Len(b) - Len(a) + 1, Len(b))
C28_OkSince(h, k) == Cardinality({n \in (k + 1)..Len(h) : h[n].ok})
C28_CallStep ==
    (results' # results) =>
        /\ C28_IsSuffix(parser'.current, parser.current)
        /\ Len(parser.current) - Len(parser'.current)
              >= C28_OkSince(parser'.ctx.h_done, Len(parser.ctx.h_done))
        /\ Len(parser'.ctx.triple_stack)
              = Len(parser.ctx.triple_stack)
                + (Len(parser'.ctx.h_push) - Len(parser.ctx.h_push))
                - (IF Last(results').kind = "triple" THEN 1 ELSE 0)
C28_NextTerminates ==
    /\ [](C28_IsSuffix(parser.current, Doc(docSel)))
    /\ [][C28_CallStep]_vars
    /\ <>(\E n \in 1..Len(results) : results[n].kind = "none")

\* C28 witness: a prefix directive and a statement were parsed, the triple
\* was returned, the input is used up and next has returned None.
C28_Witness ==
    /\ docSel = <<10, 11>>
    /\ Len(Yielded) = 1
    /\ parser.current = <<>>
    /\ parser.ctx.triple_stack = <<>>
    /\ Last(results).kind = "none"

\* C29: when a statement fails, every triple of the statements before it
\* was yielded before the error item, and no triple pushed while the failed
\* statement was parsed is ever yielded.
C29_TriplesOfStmt(k) ==
    SelectSeq(parser.ctx.h_push, LAMBDA e : e.stmt = k)
C29_ErrorAt == CHOOSE n \in 1..Len(results) : results[n].kind = "err"
C29_FailureYieldsOnlyEarlier ==
    Failed =>
        LET k == results[C29_ErrorAt].stmts
            before == SelectSeq(parser.ctx.h_push, LAMBDA e : e.stmt < k)
        IN  /\ TriplesOf(SubSeq(results, 1, C29_ErrorAt - 1))
                  = [n \in 1..Len(before) |-> before[n].tri]
            /\ Yielded = [n \in 1..Len(before) |-> before[n].tri]
            /\ parser.ctx.triple_stack
                  = [n \in 1..Len(C29_TriplesOfStmt(k)) |-> C29_TriplesOfStmt(k)[n].tri]

\* C29 witness: `<s> <p> <o> .` was yielded, then `<s> <p> ( 1 ) <o> .` failed
\* after its collection had pushed two triples; the error and a None were
\* returned and the two triples were not.
C29_Witness ==
    /\ docSel = <<1, 15>>
    /\ Len(results) = 3
    /\ results[1].kind = "triple"
    /\ results[2].kind = "err"
    /\ results[3].kind = "none"
    /\ Len(C29_TriplesOfStmt(2)) = 2
    /\ Len(Yielded) = 1

\* C30: the triples of a collection or of a blank node property list used as
\* an object are pushed while the object is parsed; the triples of the
\* statement itself are pushed last and only by a statement that matched up
\* to its `.`; so a triple that refers to a collection or to such a blank
\* node comes after the triples of that construct, the triples of a nested
\* construct come before those of the construct around it, and the iterator
\* yields in that order.
C30_StmtOf(j) == parser.ctx.h_push[j].stmt
C30_OwnIdx == {parser.ctx.h_own[n].spo : n \in 1..Len(parser.ctx.h_own)}
C30_Objects(spo) ==
    UNION {{spo.po_lists[a].objects[b] : b \in 1..Len(spo.po_lists[a].objects)} :
              a \in 1..Len(spo.po_lists)}
\* The constructs used as objects: the non-empty collections and the blank
\* node property lists, each with its term and the range of its pushes.
C30_Constructs ==
    {[term |-> parser.ctx.h_coll[n].value, at |-> parser.ctx.h_coll[n].at,
      to |-> parser.ctx.h_coll[n].to,
      parts |-> {parser.ctx.h_coll[n].elems[m] : m \in 1..Len(parser.ctx.h_coll[n].elems)}] :
        n \in 1..Len(parser.ctx.h_coll)}
    \cup
    {[term |-> parser.ctx.h_spo[n].spo.subject, at |-> parser.ctx.h_spo[n].at,
      to |-> parser.ctx.h_spo[n].to, parts |-> C30_Objects(parser.ctx.h_spo[n].spo)] :
        n \in {m \in 1..Len(parser.ctx.h_spo) :
                 m \notin C30_OwnIdx
                 /\ parser.ctx.h_spo[m].to > parser.ctx.h_spo[m].at}}
====
